---------------------------- MODULE Spec2Model ----------------------------
(***************************************************************************)
(* A model of simplified_gfx_glyph: the glyph brush of src/src/lib.rs      *)
(* (section queue, atlas growth loop, vertex generation, draw cache) and   *)
(* the example's layout and viewport clipping of                           *)
(* src/examples/html/display_document.rs.                                  *)
(*                                                                         *)
(* Numbers.  The code computes in f32; the model computes the same         *)
(* expressions exactly, in integers of a fixed unit:                       *)
(*   - screen pixels are integers (rusttype's pixel bounding boxes);       *)
(*   - a normalized device x is held multiplied by the screen width, a     *)
(*     device y multiplied by the screen height;                           *)
(*   - an atlas UV coordinate is held in texels (multiplied by the atlas   *)
(*     dimension).                                                         *)
(* u16 casts keep their width (% 2^16).                                    *)
(***************************************************************************)
EXTENDS Integers, Sequences, FiniteSets, TLC

VARIABLES
    \* ---- GlyphBrush (src/src/lib.rs:73-88) ----
    sections,        \* Vec<Section>: the queued sections
    font_cache,      \* rusttype gpu_cache::Cache: dimensions, cached glyphs, queue
    font_cache_tex,  \* (texture, shader resource view) of the atlas
    draw_cache,      \* Option<DrawnGlyphBrush>: <<>> is None, <<d>> is Some(d)
    factory,         \* the gfx factory: textures, buffers and pipelines created so far
    \* ---- the last draw_queued_with_transform call, as its caller sees it ----
    builder,         \* GlyphBrushBuilder: the initial_cache_size the brush was built with
    call,            \* result, generated vertices, draw calls issued to the encoder
    frame,           \* number of draw calls made so far
    \* ---- one application of vertex() (src/src/lib.rs:437-514) ----
    vx_in, vx_out,
    \* ---- display() and Display::clip (src/examples/html/display_document.rs) ----
    document,        \* &Vec<Block>: the blocks being laid out
    fonts,           \* the font list: its length and the v_metrics of fonts[0]
    scale,           \* the scale argument
    display,         \* Display: glyphs and lines
    position_y,      \* top of the next line
    block_index,     \* the block the `for` loop is at (1-based)
    content,         \* the spans of the block still to lay out
    start_point,     \* byte offset in the first of them where the next line starts
    display_bullet,  \* the list bullet is still to emit
    layout_pc,       \* "block", "line", "done" (returned) or "panic"
    clipped,         \* the result of a clip call on the returned Display
    \* ---- the main loop of the example (src/examples/html/main.rs:76-150) ----
    paint,           \* a frame is to be painted
    running,         \* no CloseRequested event was handled
    scroll,          \* the scroll offset, in wheel lines
    window_size_y,   \* the height of the color view, in wheel lines
    events_loop,     \* the window events not yet handled
    main_pc,         \* "idle" (not started), "loop", "blocked" (in poll.poll) or "exited"
    frames_painted   \* number of frames painted

brush_vars == <<sections, font_cache, font_cache_tex, draw_cache, factory, builder, call, frame>>
vertex_vars == <<vx_in, vx_out>>
layout_vars == <<document, fonts, scale, display, position_y, block_index, content,
                 start_point, display_bullet, layout_pc, clipped>>

main_vars == <<paint, running, scroll, window_size_y, events_loop, main_pc, frames_painted>>

vars == <<brush_vars, vertex_vars, layout_vars, main_vars>>

(***************************************************************************)
(* Exact arithmetic helpers                                                *)
(***************************************************************************)
\* f32 NaN, the result of 0.0 / 0.0
NaN == -999999 - 1

\* a * b / c as the code evaluates it (left to right), exactly
MulDiv(a, b, c) ==
    IF c = 0 \/ a = NaN THEN NaN
    ELSE IF c < 0 THEN ((0 - a) * b) \div (0 - c)
    ELSE (a * b) \div c

Width(r) == r.max.x - r.min.x
Height(r) == r.max.y - r.min.y
Rect(x0, y0, x1, y1) == [min |-> [x |-> x0, y |-> y0], max |-> [x |-> x1, y |-> y1]]


(***************************************************************************)
(* vertex(): one glyph of a Section to at most one instance                *)
(*   src/src/lib.rs:437-514                                                *)
(***************************************************************************)
\* 2.0 * (x / screen_width - 0.5), multiplied by screen_width
GlX(x, screen) == 2 * x - screen.w
\* 2.0 * (0.5 - y / screen_height), multiplied by screen_height
GlY(y, screen) == screen.h - 2 * y

\* lib.rs:444-453
GlBounds(bounds, screen) ==
    [min |-> [x |-> GlX(bounds.min.x, screen), y |-> GlY(bounds.min.y, screen)],
     max |-> [x |-> GlX(bounds.max.x, screen), y |-> GlY(bounds.max.y, screen)]]

\* a test that also drops a glyph touching the bounds on an edge
TotallyOutsideLoose(screen_rect, bounds) ==
    \/ screen_rect.min.x >= bounds.max.x
    \/ screen_rect.min.y >= bounds.max.y
    \/ bounds.min.x >= screen_rect.max.x
    \/ bounds.min.y >= screen_rect.max.y

\* lib.rs:457-460: "glyph is totally outside the bounds"
TotallyOutside(screen_rect, bounds) ==
    \/ screen_rect.min.x > bounds.max.x
    \/ screen_rect.min.y > bounds.max.y
    \/ bounds.min.x > screen_rect.max.x
    \/ bounds.min.y > screen_rect.max.y

\* lib.rs:466-475
GlRect(screen_rect, screen) ==
    [min |-> [x |-> GlX(screen_rect.min.x, screen), y |-> GlY(screen_rect.min.y, screen)],
     max |-> [x |-> GlX(screen_rect.max.x, screen), y |-> GlY(screen_rect.max.y, screen)]]

\* lib.rs:478-482.  p is the pair [gl, uv] of rectangles being clipped.
ClipMaxX(p, gl_bounds) ==
    IF p.gl.max.x > gl_bounds.max.x
    THEN LET old_width == Width(p.gl)
             gl == [p.gl EXCEPT !.max.x = gl_bounds.max.x]
         IN [gl |-> gl,
             uv |-> [p.uv EXCEPT !.max.x =
                        p.uv.min.x + MulDiv(Width(p.uv), Width(gl), old_width)]]
    ELSE p

\* a clip that moves the wrong UV edge
ClipMinXWrongEdge(p, gl_bounds) ==
    IF p.gl.min.x < gl_bounds.min.x
    THEN LET old_width == Width(p.gl)
             gl == [p.gl EXCEPT !.min.x = gl_bounds.min.x]
         IN [gl |-> gl,
             uv |-> [p.uv EXCEPT !.max.x =
                        p.uv.min.x + MulDiv(Width(p.uv), Width(gl), old_width)]]
    ELSE p

\* lib.rs:483-487
ClipMinX(p, gl_bounds) ==
    IF p.gl.min.x < gl_bounds.min.x
    THEN LET old_width == Width(p.gl)
             gl == [p.gl EXCEPT !.min.x = gl_bounds.min.x]
         IN [gl |-> gl,
             uv |-> [p.uv EXCEPT !.min.x =
                        p.uv.max.x - MulDiv(Width(p.uv), Width(gl), old_width)]]
    ELSE p

\* lib.rs:490-494 (the device y axis points up: max.y is the lower edge)
ClipMaxY(p, gl_bounds) ==
    IF p.gl.max.y < gl_bounds.max.y
    THEN LET old_height == Height(p.gl)
             gl == [p.gl EXCEPT !.max.y = gl_bounds.max.y]
         IN [gl |-> gl,
             uv |-> [p.uv EXCEPT !.max.y =
                        p.uv.min.y + MulDiv(Height(p.uv), Height(gl), old_height)]]
    ELSE p

\* lib.rs:495-499
ClipMinY(p, gl_bounds) ==
    IF p.gl.min.y > gl_bounds.min.y
    THEN LET old_height == Height(p.gl)
             gl == [p.gl EXCEPT !.min.y = gl_bounds.min.y]
         IN [gl |-> gl,
             uv |-> [p.uv EXCEPT !.min.y =
                        p.uv.max.y - MulDiv(Height(p.uv), Height(gl), old_height)]]
    ELSE p

\* no clip at all
ClipNothing(p, gl_bounds) == p

\* lib.rs:477-499: the four clips in the code's order
ClipToBounds(p, gl_bounds) ==
    ClipMinY(ClipMaxY(ClipMinX(ClipMaxX(p, gl_bounds), gl_bounds), gl_bounds), gl_bounds)

\* lib.rs:501-507
GlyphVertex(p, color, z) ==
    [left_top         |-> <<p.gl.min.x, p.gl.max.y, z>>,
     right_bottom     |-> <<p.gl.max.x, p.gl.min.y>>,
     tex_left_top     |-> <<p.uv.min.x, p.uv.max.y>>,
     tex_right_bottom |-> <<p.uv.max.x, p.uv.min.y>>,
     color            |-> color]

\* The outcomes of cache.rect_for (rusttype): Ok(Some((uv, screen))), Ok(None)
\* for a glyph without an outline, Err for a glyph that is not cached.
RectSome(uv, screen_rect) == [tag |-> "Some", uv |-> uv, screen |-> screen_rect]
RectNone == [tag |-> "None", uv |-> Rect(0, 0, 0, 0), screen |-> Rect(0, 0, 0, 0)]
RectErr == [tag |-> "Err", uv |-> Rect(0, 0, 0, 0), screen |-> Rect(0, 0, 0, 0)]

\* lib.rs:509-511: panic!("Cache miss?")
VertexPanics(rect) == rect.tag = "Err"

\* lib.rs:437-514.  The Option<GlyphVertex> is a sequence of length 0 or 1.
Vertex(color, rect, bounds, z, screen) ==
    IF rect.tag = "Some"
    THEN IF TotallyOutside(rect.screen, bounds)
         THEN <<>>
         ELSE <<GlyphVertex(ClipToBounds([gl |-> GlRect(rect.screen, screen), uv |-> rect.uv],
                                         GlBounds(bounds, screen)),
                            color, z)>>
    ELSE <<>>


(***************************************************************************)
(* The glyph atlas: rusttype::gpu_cache::Cache, an external collaborator   *)
(* (spec 4.3).  A cached glyph is keyed by [font_id, id, size]; the atlas  *)
(* is packed as a grid whose cell is the largest cached glyph.             *)
(***************************************************************************)
Max(a, b) == IF a >= b THEN a ELSE b

CacheKey(g) == [font_id |-> g.font_id, id |-> g.id,
                size |-> Max(Width(g.bb), Height(g.bb))]

RECURSIVE MaxSize(_)
MaxSize(keys) ==
    IF keys = {} THEN 0
    ELSE LET k == CHOOSE k \in keys : TRUE
         IN Max(k.size, MaxSize(keys \ {k}))

\* whether the glyphs `keys` can all be packed into an atlas of w x h texels
Fits(keys, w, h) ==
    \/ keys = {}
    \/ LET m == MaxSize(keys)
       IN /\ m <= w
          /\ m <= h
          /\ Cardinality(keys) <= (w \div m) * (h \div m)

\* Cache::queue_glyph: a glyph without a pixel bounding box is not queued
QueueGlyph(cache, g) ==
    IF g.outline THEN [cache EXCEPT !.queue = Append(@, CacheKey(g))] ELSE cache

RECURSIVE QueueGlyphs(_, _)
QueueGlyphs(cache, glyphs) ==
    IF glyphs = <<>> THEN cache
    ELSE QueueGlyphs(QueueGlyph(cache, Head(glyphs)), Tail(glyphs))

Range(seq) == {seq[i] : i \in DOMAIN seq}

\* Cache::cache_queued: packs the whole queue or fails with no change
\* (spec 4.3: "performs NO partial mutation of atlas state - the queue
\* remains intact for retry").  Glyphs that are not queued are evicted when
\* the queue does not fit beside them.
CacheQueuedOk(cache) ==
    Fits(Range(cache.queue), cache.width, cache.height)

CacheQueued(cache) ==
    LET queued == Range(cache.queue)
    IN [cache EXCEPT
           !.all_glyphs = IF Fits(@ \cup queued, cache.width, cache.height)
                          THEN @ \cup queued ELSE queued,
           !.queue = <<>>]

\* a rebuild after which every queued glyph is queued once more
RebuildQueuingAgain(cache, new_width, new_height) ==
    [cache EXCEPT !.width = new_width, !.height = new_height, !.all_glyphs = {},
                  !.queue = @ \o @]

\* CacheBuilder::rebuild: "All cached glyphs are cleared, however the glyph
\* queue is retained unmodified" (spec 4.3: "preserving currently-queued
\* requests")
Rebuild(cache, new_width, new_height) ==
    [cache EXCEPT !.width = new_width, !.height = new_height, !.all_glyphs = {}]

\* the atlas rectangle of a cached glyph, in texels
UvRect(cache, key) ==
    LET m == MaxSize(cache.all_glyphs)
        per_row == cache.width \div m
        i == Cardinality({k \in cache.all_glyphs :
                 \/ k.id < key.id
                 \/ (k.id = key.id /\ k.font_id < key.font_id)})
        x0 == (i % per_row) * m
        y0 == (i \div per_row) * m
    IN [x0 |-> x0, y0 |-> y0]

\* Cache::rect_for
RectFor(cache, g) ==
    IF ~g.outline THEN RectNone
    ELSE IF CacheKey(g) \in cache.all_glyphs
    THEN LET o == UvRect(cache, CacheKey(g))
         IN RectSome(Rect(o.x0, o.y0, o.x0 + Width(g.bb), o.y0 + Height(g.bb)), g.bb)
    ELSE RectErr


(***************************************************************************)
(* Inputs of the brush                                                     *)
(***************************************************************************)
\* number of draw calls explored
MaxFrames == 2
\* number of sections queued for one draw call
MaxSections == 2
\* number of textures the factory can still allocate within one draw call
MaxGrowth == 2

\* stands for std::f32::INFINITY in a Section's bounds (examples/html/main.rs:131)
Infinity == 1000 * 1000

\* the render target's dimensions (lib.rs:190)
Screen == [w |-> 40, h |-> 30]

ColorFormats == {"Rgba8", "Srgba8"}
DepthFormats == {"DepthStencil", "Depth"}
Targets == {[color |-> "Rgba8", depth |-> "DepthStencil"],
            [color |-> "Rgba8", depth |-> "Depth"],
            [color |-> "Srgba8", depth |-> "DepthStencil"]}

\* lib.rs:62-67, and any other matrix
IDENTITY_MATRIX4 == "identity"

\* GlyphBrushBuilder::initial_cache_size (builder.rs:87-90)
InitialCacheSizes == {<<8, 8>>, <<32768, 32768>>}

LayoutGlyph(color, font_id, id, outline, bb) ==
    [color |-> color, font_id |-> font_id, id |-> id, outline |-> outline, bb |-> bb]

GlyphA == LayoutGlyph("regular", 0, 1, TRUE, Rect(2, 2, 8, 8))
GlyphB == LayoutGlyph("link", 1, 2, TRUE, Rect(18, 16, 24, 22))
GlyphC == LayoutGlyph("code", 4, 3, TRUE, Rect(30, 4, 40, 14))
GlyphSpace == LayoutGlyph("regular", 0, 4, FALSE, Rect(0, 0, 0, 0))
GlyphD == LayoutGlyph("link", 0, 6, TRUE, Rect(10, 20, 16, 26))
GlyphHuge == LayoutGlyph("regular", 0, 5, TRUE, Rect(0, 0, 40000, 40000))

BoundsNarrow == Rect(0, 0, 20, 20)
BoundsAll == Rect(0, 0, Infinity, Infinity)

Section(bounds, glyphs, z) == [bounds |-> bounds, glyphs |-> glyphs, z |-> z]

\* a Section clipped by its bounds, one with a glyph that has no outline,
\* and one without glyphs
SectionInputs ==
    {Section(BoundsNarrow, <<GlyphA, GlyphB, GlyphC>>, 0),
     Section(BoundsAll, <<GlyphSpace, GlyphD>>, 1),
     Section(BoundsAll, <<>>, 1)}

\* Sections for the large atlas: one that fits it and one that does not
LargeSectionInputs ==
    {Section(BoundsNarrow, <<GlyphA, GlyphB, GlyphC>>, 0),
     Section(BoundsAll, <<GlyphHuge>>, 1)}

(***************************************************************************)
(* GlyphBrush                                                              *)
(***************************************************************************)
\* `width as texture::Size`: gfx's texture::Size is u16 (lib.rs:523-524)
AsSize(n) == n % 65536

\* create_texture, lib.rs:517-540: the texture the factory makes when it can
CreateTexture(fac, width, height) ==
    [id |-> fac.textures + 1, w |-> AsSize(width), h |-> AsSize(height)]

\* GlyphBrushBuilder::build, builder.rs:161-195
Build(size) ==
    /\ builder = [initial_cache_size |-> size]
    /\ sections = <<>>
    /\ font_cache = [width |-> size[1], height |-> size[2], all_glyphs |-> {}, queue |-> <<>>]
    /\ LET tex == CreateTexture([textures |-> 0], size[1], size[2])
       IN font_cache_tex = [tex |-> tex, view |-> tex.id]
    /\ factory = [textures |-> 1]
    /\ draw_cache = <<>>

\* GlyphBrush::queue_section, lib.rs:104-106
QueueSection(section) ==
    /\ frame < MaxFrames
    /\ Len(sections) < MaxSections
    /\ sections' = Append(sections, section)
    /\ UNCHANGED <<font_cache, font_cache_tex, draw_cache, factory, builder, call, frame>>
    /\ UNCHANGED <<vertex_vars, main_vars, layout_vars>>

RECURSIVE AllGlyphs(_)
AllGlyphs(secs) ==
    IF secs = <<>> THEN <<>> ELSE Head(secs).glyphs \o AllGlyphs(Tail(secs))

\* a growth step that ends the loop instead of committing again
CommitLoopNoRetry(st) ==
    IF CacheQueuedOk(st.cache)
    THEN [st EXCEPT !.ok = TRUE, !.cache = CacheQueued(st.cache)]
    ELSE LET new_width == st.cache.width * 2
             new_height == st.cache.height * 2
         IN IF st.budget > 0
            THEN LET new_tex == CreateTexture(st.fac, new_width, new_height)
                 IN [st EXCEPT
                        !.ok = TRUE,
                        !.cache = Rebuild(st.cache, new_width, new_height),
                        !.dc = IF st.dc = <<>> THEN <<>>
                               ELSE <<[st.dc[1] EXCEPT !.texture_updated = TRUE]>>,
                        !.tex = [tex |-> new_tex, view |-> new_tex.id],
                        !.fac = [st.fac EXCEPT !.textures = @ + 1],
                        !.grown = @ + 1,
                        !.budget = @ - 1]
            ELSE [st EXCEPT !.ok = FALSE]

\* a growth step that does not mark the draw cache's texture as updated
RECURSIVE CommitLoopNoFlag(_)
CommitLoopNoFlag(st) ==
    IF CacheQueuedOk(st.cache)
    THEN [st EXCEPT !.ok = TRUE, !.cache = CacheQueued(st.cache)]
    ELSE LET new_width == st.cache.width * 2
             new_height == st.cache.height * 2
         IN IF st.budget > 0
            THEN LET new_tex == CreateTexture(st.fac, new_width, new_height)
                 IN CommitLoopNoFlag(
                      [st EXCEPT
                          !.cache = Rebuild(st.cache, new_width, new_height),
                          !.tex = [tex |-> new_tex, view |-> new_tex.id],
                          !.fac = [st.fac EXCEPT !.textures = @ + 1],
                          !.grown = @ + 1,
                          !.budget = @ - 1])
            ELSE [st EXCEPT !.ok = FALSE]

\* lib.rs:211-269: commit the queue, growing the atlas while it overflows.
\* st.budget is the number of textures the factory can still allocate.
RECURSIVE CommitLoop(_)
CommitLoop(st) ==
    IF CacheQueuedOk(st.cache)
    THEN [st EXCEPT !.ok = TRUE, !.cache = CacheQueued(st.cache)]
    ELSE LET new_width == st.cache.width * 2
             new_height == st.cache.height * 2
         IN IF st.budget > 0
            THEN LET new_tex == CreateTexture(st.fac, new_width, new_height)
                 IN CommitLoop(
                      [st EXCEPT
                          !.cache = Rebuild(st.cache, new_width, new_height),
                          !.dc = IF st.dc = <<>> THEN <<>>
                                 ELSE <<[st.dc[1] EXCEPT !.texture_updated = TRUE]>>,
                          !.tex = [tex |-> new_tex, view |-> new_tex.id],
                          !.fac = [st.fac EXCEPT !.textures = @ + 1],
                          !.grown = @ + 1,
                          !.budget = @ - 1])
            ELSE [st EXCEPT !.ok = FALSE]


\* lib.rs:282-290: the instances of one Section, in glyph order
RECURSIVE SectionVerts(_, _, _, _)
SectionVerts(cache, glyphs, bounds, z) ==
    IF glyphs = <<>> THEN <<>>
    ELSE Vertex(Head(glyphs).color, RectFor(cache, Head(glyphs)), bounds, z, Screen)
         \o SectionVerts(cache, Tail(glyphs), bounds, z)

\* instances pushed in front instead of behind
RECURSIVE VertsReversed(_, _)
VertsReversed(cache, secs) ==
    IF secs = <<>> THEN <<>>
    ELSE VertsReversed(cache, Tail(secs))
         \o SectionVerts(cache, Head(secs).glyphs, Head(secs).bounds, Head(secs).z)

\* lib.rs:273-294: the instances of all Sections, in queue order
RECURSIVE Verts(_, _)
Verts(cache, secs) ==
    IF secs = <<>> THEN <<>>
    ELSE SectionVerts(cache, Head(secs).glyphs, Head(secs).bounds, Head(secs).z)
         \o Verts(cache, Tail(secs))

\* GlyphBrush::pso_using, lib.rs:374-387: a pipeline built for the two formats
PsoUsing(color_format, depth_format, made) ==
    [color |-> color_format, depth |-> depth_format, made |-> made]

\* lib.rs:304: the cached pipeline is compared by the colour format alone
PsoStaleByColor(pso, target) ==
    pso.key # target.color

\* a cache that keeps the instance count of the frame that created it
UpdateDrawCacheKeepCount(cache, vbuf, n_verts, target, view, now) ==
    [cache EXCEPT
        !.vbuf = vbuf,
        !.out = target.color,
        !.out_depth = target.depth,
        !.pso = IF PsoStaleByColor(@, target)
                THEN [key |-> target.color,
                      pipeline |-> PsoUsing(target.color, target.depth, now)]
                ELSE @,
        !.font_tex = IF cache.texture_updated THEN view ELSE @,
        !.texture_updated = FALSE]

\* a cache that keeps the texture view it was created with
UpdateDrawCacheKeepView(cache, vbuf, n_verts, target, view, now) ==
    [cache EXCEPT
        !.vbuf = vbuf,
        !.out = target.color,
        !.out_depth = target.depth,
        !.pso = IF PsoStaleByColor(@, target)
                THEN [key |-> target.color,
                      pipeline |-> PsoUsing(target.color, target.depth, now)]
                ELSE @,
        !.instances = n_verts,
        !.texture_updated = FALSE]

\* lib.rs:300-315: the draw cache of an earlier frame, brought up to date
UpdateDrawCache(cache, vbuf, n_verts, target, view, now) ==
    [cache EXCEPT
        !.vbuf = vbuf,
        !.out = target.color,
        !.out_depth = target.depth,
        !.pso = IF PsoStaleByColor(@, target)
                THEN [key |-> target.color,
                      pipeline |-> PsoUsing(target.color, target.depth, now)]
                ELSE @,
        !.instances = n_verts,
        !.font_tex = IF cache.texture_updated THEN view ELSE @,
        !.texture_updated = FALSE]

\* lib.rs:316-344: the first draw cache
NewDrawCache(vbuf, n_verts, target, view, transform, now) ==
    [vbuf |-> vbuf,
     font_tex |-> view,
     transform |-> transform,
     out |-> target.color,
     out_depth |-> target.depth,
     pso |-> [key |-> target.color,
              pipeline |-> PsoUsing(target.color, target.depth, now)],
     instances |-> n_verts,
     texture_updated |-> FALSE]

\* lib.rs:348-357: encoder.draw(slice, &pso.1, pipe_data)
EncoderDraw(d) ==
    [instances |-> d.instances, pipeline |-> d.pso.pipeline, vbuf |-> d.vbuf,
     font_tex |-> d.font_tex, transform |-> d.transform,
     out |-> d.out, out_depth |-> d.out_depth]

\* What a caller has seen of the last draw call: its result, the vertices it
\* generated, the draw calls it issued to the encoder and the successful
\* growth steps it made; and what it was called with: the target, the number
\* of queued glyphs, the glyphs cached at that time, whether the first
\* commit overflowed.
NoCall == [result |-> "none", verts |-> <<>>, draws |-> <<>>, grown |-> 0,
           target |-> [color |-> "none", depth |-> "none"],
           n_glyphs |-> 0, cached_before |-> {}, overflow |-> FALSE]

\* lib.rs:259-264 and 273-362: the draw call after the commit loop.  st is
\* the state the loop left, seen the record of the call, now the call's frame
FinishDraw(st, seen, transform, target, now) ==
    /\ font_cache' = st.cache
    /\ font_cache_tex' = st.tex
    /\ factory' = st.fac
    /\ IF ~st.ok
       THEN \* lib.rs:259-264
            /\ call' = [seen EXCEPT !.result = "Err", !.grown = st.grown]
            /\ draw_cache' = st.dc
            /\ UNCHANGED sections
       ELSE IF \E i \in DOMAIN AllGlyphs(sections) :
                  VertexPanics(RectFor(st.cache, AllGlyphs(sections)[i]))
       THEN \* lib.rs:509-511
            /\ call' = [seen EXCEPT !.result = "Panic", !.grown = st.grown]
            /\ draw_cache' = st.dc
            /\ UNCHANGED sections
       ELSE LET verts == Verts(st.cache, sections)
                vbuf == [frame |-> now, data |-> verts]
                dc == IF st.dc # <<>>
                      THEN UpdateDrawCache(st.dc[1], vbuf, Len(verts), target,
                                           st.tex.view, now)
                      ELSE NewDrawCache(vbuf, Len(verts), target, st.tex.view,
                                        transform, now)
                drawn == [dc EXCEPT !.transform = transform]
            IN /\ draw_cache' = <<drawn>>
               /\ call' = [seen EXCEPT !.result = "Ok", !.verts = verts,
                                        !.draws = <<EncoderDraw(drawn)>>,
                                        !.grown = st.grown]
               /\ sections' = <<>>

\* GlyphBrush::draw_queued_with_transform, lib.rs:175-368.
\* `budget`: how many textures the factory can allocate before it fails.
DrawQueuedWithTransform(transform, target, budget) ==
    /\ frame < MaxFrames
    /\ frame' = frame + 1
    /\ UNCHANGED <<builder, vertex_vars, main_vars, layout_vars>>
    /\ IF AllGlyphs(sections) = <<>>
       THEN \* lib.rs:206-208: no_text
            /\ call' = [NoCall EXCEPT !.result = "Ok", !.target = target,
                                      !.cached_before = font_cache.all_glyphs]
            /\ UNCHANGED <<sections, font_cache, font_cache_tex, draw_cache, factory>>
       ELSE LET queued == QueueGlyphs(font_cache, AllGlyphs(sections))
                seen == [NoCall EXCEPT !.target = target,
                                       !.n_glyphs = Len(AllGlyphs(sections)),
                                       !.cached_before = font_cache.all_glyphs,
                                       !.overflow = ~CacheQueuedOk(queued)]
                st == CommitLoop([ok |-> FALSE,
                                  cache |-> queued,
                                  tex |-> font_cache_tex,
                                  dc |-> draw_cache,
                                  fac |-> factory,
                                  grown |-> 0,
                                  budget |-> budget])
            IN FinishDraw(st, seen, transform, target, frame + 1)

\* GlyphBrush::draw_queued, lib.rs:117-129
DrawQueued(target, budget) ==
    DrawQueuedWithTransform(IDENTITY_MATRIX4, target, budget)

BrushInitOver(sizes) ==
    /\ \E size \in sizes : Build(size)
    /\ call = NoCall
    /\ frame = 0

\* a brush built with a small atlas, so that a few glyphs overflow it
BrushInit == BrushInitOver({<<8, 8>>})

\* a brush built with any of the initial sizes
BrushInitAnySize == BrushInitOver(InitialCacheSizes)

\* texels of the largest texture the factory can allocate (spec 5: the growth
\* loop is "bounded by available memory")
TextureMemory == 4096

\* Factory::create_texture succeeds: the texture, of the dimensions cast
\* to u16, is within the memory the factory has
FactoryAllocates(width, height) == AsSize(width) * AsSize(height) <= TextureMemory

\* the doublings after which a u32 dimension cannot have doubled once more
U32Bits == 32

\* iterations of the growth-retry loop explored within one draw call
MaxDoublings == U32Bits + 2

\* lib.rs:186-209: the draw call up to the first commit attempt
BeginDraw(target) ==
    /\ call.result # "Growing"
    /\ frame < MaxFrames
    /\ frame' = frame + 1
    /\ UNCHANGED <<builder, vertex_vars, main_vars, layout_vars>>
    /\ UNCHANGED <<sections, font_cache_tex, draw_cache, factory>>
    /\ IF AllGlyphs(sections) = <<>>
       THEN \* lib.rs:206-208: no_text
            /\ call' = [NoCall EXCEPT !.result = "Ok", !.target = target,
                                      !.cached_before = font_cache.all_glyphs]
            /\ UNCHANGED font_cache
       ELSE LET queued == QueueGlyphs(font_cache, AllGlyphs(sections))
            IN /\ font_cache' = queued
               /\ call' = [NoCall EXCEPT !.result = "Growing", !.target = target,
                                         !.n_glyphs = Len(AllGlyphs(sections)),
                                         !.cached_before = font_cache.all_glyphs,
                                         !.overflow = ~CacheQueuedOk(queued)]

\* lib.rs:211-269: one iteration of the growth-retry loop, and the rest of
\* the call when the loop ends.  The factory allocates a texture of up to
\* TextureMemory texels.
CommitAttempt ==
    /\ call.result = "Growing"
    /\ UNCHANGED <<builder, frame, vertex_vars, main_vars, layout_vars>>
    /\ LET new_width == font_cache.width * 2
           new_height == font_cache.height * 2
           left == [ok |-> FALSE, cache |-> font_cache, tex |-> font_cache_tex,
                    dc |-> draw_cache, fac |-> factory, grown |-> call.grown]
       IN IF CacheQueuedOk(font_cache)
          THEN FinishDraw([left EXCEPT !.ok = TRUE, !.cache = CacheQueued(font_cache)],
                          call, IDENTITY_MATRIX4, call.target, frame)
          ELSE IF FactoryAllocates(new_width, new_height)
          THEN LET new_tex == CreateTexture(factory, new_width, new_height)
               IN /\ call.grown < MaxDoublings
                  /\ font_cache' = Rebuild(font_cache, new_width, new_height)
                  /\ draw_cache' = IF draw_cache = <<>> THEN <<>>
                                   ELSE <<[draw_cache[1] EXCEPT !.texture_updated = TRUE]>>
                  /\ font_cache_tex' = [tex |-> new_tex, view |-> new_tex.id]
                  /\ factory' = [factory EXCEPT !.textures = @ + 1]
                  /\ call' = [call EXCEPT !.grown = @ + 1]
                  /\ UNCHANGED sections
          ELSE FinishDraw(left, call, IDENTITY_MATRIX4, call.target, frame)

\* draw calls taken one loop iteration at a time; no Section is queued while
\* a draw call runs
GrowthNext ==
    \/ \E section \in LargeSectionInputs :
          /\ call.result # "Growing"
          /\ QueueSection(section)
    \/ \E target \in {[color |-> "Rgba8", depth |-> "DepthStencil"]} : BeginDraw(target)
    \/ CommitAttempt

\* the brush's operations, with their inputs drawn from the given sets
BrushNextOver(section_inputs, targets, budgets) ==
    \/ \E section \in section_inputs : QueueSection(section)
    \/ \E target \in targets, budget \in budgets : DrawQueued(target, budget)

BrushNext ==
    \/ BrushNextOver(SectionInputs, {[color |-> "Rgba8", depth |-> "DepthStencil"]},
                     0..MaxGrowth)

\* draw calls on the large atlas
LargeNext ==
    \/ BrushNextOver(LargeSectionInputs, {[color |-> "Rgba8", depth |-> "DepthStencil"]},
                     0..MaxGrowth)

FormatsNext ==
    \/ \E section \in {Section(BoundsAll, <<GlyphSpace, GlyphA>>, 1)} : QueueSection(section)
    \/ \E target \in Targets : DrawQueued(target, MaxGrowth)
    \/ \E target \in Targets : DrawQueuedWithTransform("custom", target, MaxGrowth)

(***************************************************************************)
(* Layout: display() of src/examples/html/display_document.rs              *)
(*                                                                         *)
(* Numbers.  rusttype scales a font's unit metrics by                      *)
(* scale / (ascent - descent); for the DejaVu fonts the example loads,     *)
(* ascent - descent is 2384 font units.  A block scale is held in          *)
(* hundredths of a pixel (the heading factors have two decimals), so every *)
(* length of the layout is an integer number of 1 / (100 * 2384) pixel.    *)
(*                                                                         *)
(* Text.  A String is the sequence of its characters; offsets into it are  *)
(* byte offsets of its UTF-8 encoding, as in the code.                     *)
(***************************************************************************)
\* font units in ascent - descent
UnitsPerScale == 2384

\* one pixel, in layout units
Px == 100 * UnitsPerScale

FONT_SIZE_REGULAR == 18

INDENT == 32

PARAGRAPH_SPACING == 14

WIDTH == 540

\* main.rs:11
MARGIN == 32

\* main.rs:60, the position_x the example lays out at
PositionX == -270

\* f32::ceil of a length, to whole pixels
Ceil(v) == -(((-v) \div Px) * Px)

\* char::is_whitespace
IsWhitespace(character) == character \in {" ", "\n", "nbsp"}

\* char::len_utf8: e-acute and the no-break space take two bytes
LenUtf8(character) == IF character \in {"eacute", "nbsp"} THEN 2 ELSE 1

\* str::len, in bytes
RECURSIVE StrLen(_)
StrLen(text) ==
    IF text = <<>> THEN 0 ELSE LenUtf8(Head(text)) + StrLen(Tail(text))

\* str::char_indices: the characters with their byte offsets
CharIndices(text) ==
    [i \in DOMAIN text |-> [position |-> StrLen(SubSeq(text, 1, i - 1)), character |-> text[i]]]

\* str::is_char_boundary
IsCharBoundary(text, index) ==
    \/ index = StrLen(text)
    \/ \E i \in DOMAIN text : CharIndices(text)[i].position = index

\* &text[index..]; the caller checks IsCharBoundary, the slice panics otherwise
SliceFrom(text, index) ==
    LET from == IF \E i \in DOMAIN text : CharIndices(text)[i].position >= index
                THEN CHOOSE i \in DOMAIN text :
                        /\ CharIndices(text)[i].position >= index
                        /\ \A j \in 1..(i - 1) : CharIndices(text)[j].position < index
                ELSE Len(text) + 1
    IN SubSeq(text, from, Len(text))

\* &text[..index]
SliceTo(text, index) ==
    SubSeq(text, 1, Len(text) - Len(SliceFrom(text, index)))

\* a trim that removes the first character whatever it is
TrimLeftAnyCharacter(text) == IF text = <<>> THEN text ELSE Tail(text)

\* str::trim_left
RECURSIVE TrimLeft(_)
TrimLeft(text) ==
    IF text # <<>> /\ IsWhitespace(Head(text)) THEN TrimLeft(Tail(text)) ELSE text

\* display_document.rs:320-326
map_character(character) == IF character = "\n" THEN " " ELSE character

\* display_document.rs:80-91: the heading factors, in hundredths
BlockFactor(class) ==
    CASE class = "Heading1" -> 200
      [] class = "Heading2" -> 150
      [] class = "Heading3" -> 117
      [] class = "Heading4" -> 100
      [] class = "Heading5" -> 83
      [] class = "Heading6" -> 67
      [] class = "ListItem" -> 100
      [] class = "Paragraph" -> 100
      [] class = "Preformatted" -> 100

\* every block laid out at the scale of a Heading1
BlockScaleOfHeading1(class, the_scale) ==
    BlockFactor("Heading1") * FONT_SIZE_REGULAR * the_scale

\* block_scale, in hundredths of a pixel
BlockScale(class, the_scale) == BlockFactor(class) * FONT_SIZE_REGULAR * the_scale

\* display_document.rs:93-96
LeftMargin(class, the_scale) ==
    IF class \in {"ListItem", "Preformatted"} THEN INDENT * the_scale * Px ELSE 0

\* a font table in which Code is the sixth font
FontIdCodeSixth(class) ==
    CASE class \in {"Bold", "BoldLink"} -> 1
      [] class \in {"BoldItalic", "BoldItalicLink"} -> 2
      [] class = "Code" -> 5
      [] class \in {"Italic", "ItalicLink"} -> 3
      [] class \in {"Link", "Regular"} -> 0

\* display_document.rs:116-122 and 211-217
FontId(class) ==
    CASE class \in {"Bold", "BoldLink"} -> 1
      [] class \in {"BoldItalic", "BoldItalicLink"} -> 2
      [] class = "Code" -> 4
      [] class \in {"Italic", "ItalicLink"} -> 3
      [] class \in {"Link", "Regular"} -> 0

\* display_document.rs:200-210
Color(class) ==
    CASE class \in {"Bold", "BoldItalic", "Italic", "Regular"} -> "COLOR_REGULAR"
      [] class \in {"BoldLink", "BoldItalicLink", "ItalicLink", "Link"} -> "COLOR_LINK"
      [] class = "Code" -> "COLOR_CODE"

\* Font::glyph(character).id(): one glyph per character
GlyphId(character) == character

\* glyph.h_metrics().advance_width at a block the_scale.  Font 4 is monospaced;
\* the others have the advances of DejaVu Sans, in font units.
AdvanceUnits(font_id, id) ==
    IF font_id = 4 THEN 1233
    ELSE CASE id = "m" -> 1995
           [] id = "i" -> 569
           [] id = " " -> 651
           [] id = "nbsp" -> 651
           [] id = "eacute" -> 1260
           [] OTHER -> 1208

AdvanceWidth(font_id, block_scale, id) == AdvanceUnits(font_id, id) * block_scale

\* Font::pair_kerning at a block the_scale: the proportional fonts kern "m"
\* before "i" and "i" before "i"
KerningUnits(font_id, last_glyph, id) ==
    IF font_id = 4 THEN 0
    ELSE IF last_glyph = "m" /\ id = "i" THEN -100
    ELSE IF last_glyph = "i" /\ id = "i" THEN 40
    ELSE 0

PairKerning(font_id, block_scale, last_glyph, id) ==
    KerningUnits(font_id, last_glyph, id) * block_scale

\* Option<GlyphId>::None
NoGlyph == "none"

LineBreak == [kind |-> "LineBreak", class |-> "none", text |-> <<>>]

Text(class, text) == [kind |-> "Text", class |-> class, text |-> text]

Flowing(class, spans) ==
    [kind |-> "Flowing", class |-> class, content |-> spans, source |-> <<>>]

Image(source) == [kind |-> "Image", class |-> "none", content |-> <<>>, source |-> source]

\* gfx_glyph::LayoutGlyph with its scaled, positioned glyph
PositionedGlyph(color, font_id, id, block_scale, x, y) ==
    [color |-> color, font_id |-> font_id, id |-> id, scale |-> block_scale, x |-> x, y |-> y]

\* a line whose glyph range counts the glyphs from one
LineOneBased(start, end, glyphs_start, glyphs_end) ==
    [bounds_y |-> [start |-> start, end |-> end],
     glyphs |-> [start |-> glyphs_start + 1, end |-> glyphs_end + 1]]

\* display_document.rs:22-25
Line(start, end, glyphs_start, glyphs_end) ==
    [bounds_y |-> [start |-> start, end |-> end],
     glyphs |-> [start |-> glyphs_start, end |-> glyphs_end]]

\* a measuring pass that compares the width before the character's advance
\* with the column width
RECURSIVE MeasureCharsBreakingLate(_, _, _, _, _, _)
MeasureCharsBreakingLate(font_id, block_scale, span_index, chars, i, m) ==
    IF i > Len(chars) THEN m
    ELSE LET at == <<span_index, chars[i].position>>
             seen == IF IsWhitespace(chars[i].character) THEN at ELSE m.break_point
             id == GlyphId(map_character(chars[i].character))
             kerned == IF m.last_glyph # NoGlyph
                       THEN m.caret_position_x
                            + PairKerning(font_id, block_scale, m.last_glyph, id)
                       ELSE m.caret_position_x
             caret == kerned + AdvanceWidth(font_id, block_scale, id)
             next == [m EXCEPT !.break_point = seen, !.caret_position_x = caret,
                               !.last_glyph = id]
         IN IF kerned > WIDTH * Px
            THEN IF seen = <<0, 0>>
                 THEN IF at # <<0, 0>>
                      THEN [m EXCEPT !.break_point = at, !.caret_position_x = caret,
                                     !.wrap = TRUE]
                      ELSE MeasureCharsBreakingLate(font_id, block_scale, span_index, chars,
                                                    i + 1, next)
                 ELSE [m EXCEPT !.break_point = seen, !.caret_position_x = caret,
                                !.wrap = TRUE]
            ELSE MeasureCharsBreakingLate(font_id, block_scale, span_index, chars, i + 1, next)

\* display_document.rs:123-152: the characters of one span in the measuring
\* pass, from character i on.  m holds break_point, caret_position_x,
\* last_glyph and wrap; wrap set is `break 'a`.
RECURSIVE MeasureChars(_, _, _, _, _, _)
MeasureChars(font_id, block_scale, span_index, chars, i, m) ==
    IF i > Len(chars) THEN m
    ELSE LET at == <<span_index, chars[i].position>>
             seen == IF IsWhitespace(chars[i].character) THEN at ELSE m.break_point
             id == GlyphId(map_character(chars[i].character))
             kerned == IF m.last_glyph # NoGlyph
                       THEN m.caret_position_x
                            + PairKerning(font_id, block_scale, m.last_glyph, id)
                       ELSE m.caret_position_x
             caret == kerned + AdvanceWidth(font_id, block_scale, id)
             next == [m EXCEPT !.break_point = seen, !.caret_position_x = caret,
                               !.last_glyph = id]
         IN IF caret > WIDTH * Px
            THEN IF seen = <<0, 0>>
                 THEN IF at # <<0, 0>>
                      THEN [m EXCEPT !.break_point = at, !.caret_position_x = caret,
                                     !.wrap = TRUE]
                      ELSE MeasureChars(font_id, block_scale, span_index, chars, i + 1, next)
                 ELSE [m EXCEPT !.break_point = seen, !.caret_position_x = caret,
                                !.wrap = TRUE]
            ELSE MeasureChars(font_id, block_scale, span_index, chars, i + 1, next)

\* the text of span span_index of a line that starts at start of span 0
\* (display_document.rs:111-115 and 190-194)
SpanText(span, span_index, start) ==
    IF span_index = 0 THEN SliceFrom(span.text, start) ELSE span.text

\* the slice of SpanText panics
SpanTextPanics(span, span_index, start) ==
    span_index = 0 /\ ~IsCharBoundary(span.text, start)

\* display_document.rs:108-160: the measuring pass from span span_index on
RECURSIVE MeasureSpans(_, _, _, _, _, _)
MeasureSpans(spans, start, block_scale, n_fonts, span_index, m) ==
    IF span_index >= Len(spans) THEN m
    ELSE LET span == spans[span_index + 1]
         IN IF span.kind = "LineBreak"
            THEN [m EXCEPT !.break_point = <<span_index + 1, 0>>, !.wrap = TRUE]
            ELSE IF SpanTextPanics(span, span_index, start)
                    \/ FontId(span.class) >= n_fonts
            THEN [m EXCEPT !.panic = TRUE]
            ELSE LET font_id == FontId(span.class)
                     reset == IF font_id # m.last_font_id
                              THEN [m EXCEPT !.last_glyph = NoGlyph, !.last_font_id = font_id]
                              ELSE m
                     after == MeasureChars(font_id, block_scale, span_index,
                                           CharIndices(SpanText(span, span_index, start)),
                                           1, reset)
                 IN IF after.wrap THEN after
                    ELSE MeasureSpans(spans, start, block_scale, n_fonts,
                                      span_index + 1, after)

\* display_document.rs:102-164: break_point and wrap of the line that starts
\* at start of spans
Measure(spans, start, block_scale, left_margin, n_fonts) ==
    LET m == MeasureSpans(spans, start, block_scale, n_fonts, 0,
                          [break_point |-> <<0, 0>>, caret_position_x |-> left_margin,
                           last_font_id |-> 0, last_glyph |-> NoGlyph, wrap |-> FALSE,
                           panic |-> FALSE])
    IN IF m.wrap \/ m.panic THEN m
       ELSE [m EXCEPT !.break_point = <<Len(spans) + 1, 0>>]

\* an emitting pass that places every glyph at the caret, without kerning
RECURSIVE EmitCharsUnkerned(_, _, _, _, _, _, _)
EmitCharsUnkerned(color, font_id, block_scale, baseline_position_y, text, i, e) ==
    IF i > Len(text) THEN e
    ELSE LET id == GlyphId(map_character(text[i]))
         IN EmitCharsUnkerned(color, font_id, block_scale, baseline_position_y, text, i + 1,
                              [e EXCEPT
                                  !.last_glyph = id,
                                  !.caret_position_x =
                                      @ + AdvanceWidth(font_id, block_scale, id),
                                  !.glyphs = Append(@, PositionedGlyph(color, font_id, id,
                                                                       block_scale,
                                                                       e.caret_position_x,
                                                                       baseline_position_y))])

\* display_document.rs:219-241: the glyphs of the characters of one span
RECURSIVE EmitChars(_, _, _, _, _, _, _)
EmitChars(color, font_id, block_scale, baseline_position_y, text, i, e) ==
    IF i > Len(text) THEN e
    ELSE LET id == GlyphId(map_character(text[i]))
             glyph_position_x == IF e.last_glyph # NoGlyph
                                 THEN e.caret_position_x
                                      + PairKerning(font_id, block_scale, e.last_glyph, id)
                                 ELSE e.caret_position_x
         IN EmitChars(color, font_id, block_scale, baseline_position_y, text, i + 1,
                      [e EXCEPT
                          !.last_glyph = id,
                          !.caret_position_x =
                              glyph_position_x + AdvanceWidth(font_id, block_scale, id),
                          !.glyphs = Append(@, PositionedGlyph(color, font_id, id, block_scale,
                                                               glyph_position_x,
                                                               baseline_position_y))])

\* display_document.rs:187-252: the emitting pass from span span_index on
RECURSIVE EmitSpans(_, _, _, _, _, _, _, _)
EmitSpans(spans, start, break_point, block_scale, baseline_position_y, n_fonts, span_index, e) ==
    IF span_index >= Len(spans) THEN e
    ELSE LET span == spans[span_index + 1]
         IN IF span.kind = "LineBreak" THEN e
            ELSE IF SpanTextPanics(span, span_index, start)
            THEN [e EXCEPT !.panic = TRUE]
            ELSE LET whole == SpanText(span, span_index, start)
                     cut == span_index = break_point[1]
                 IN IF (cut /\ ~IsCharBoundary(whole, break_point[2]))
                       \/ FontId(span.class) >= n_fonts
                    THEN [e EXCEPT !.panic = TRUE]
                    ELSE LET text == IF cut THEN SliceTo(whole, break_point[2]) ELSE whole
                             font_id == FontId(span.class)
                             reset == IF font_id # e.last_font_id
                                      THEN [e EXCEPT !.last_glyph = NoGlyph,
                                                     !.last_font_id = font_id]
                                      ELSE e
                             after == EmitChars(Color(span.class), font_id, block_scale,
                                                baseline_position_y, text, 1, reset)
                         IN IF cut THEN after
                            ELSE EmitSpans(spans, start, break_point, block_scale,
                                           baseline_position_y, n_fonts, span_index + 1, after)

\* display_document.rs:171-184
Bullet(block_scale, position_x, baseline_position_y) ==
    PositionedGlyph("COLOR_REGULAR", 0, GlyphId("bullet"), block_scale,
                    position_x + (INDENT * Px) \div 2, baseline_position_y)

\* display_document.rs:268-276: skip the whitespace that starts the next
\* line, dropping the spans that hold nothing else
RECURSIVE SkipWhitespace(_)
SkipWhitespace(at) ==
    IF at.panic \/ at.content = <<>> \/ Head(at.content).kind # "Text" THEN at
    ELSE LET text == Head(at.content).text
         IN IF ~IsCharBoundary(text, at.start_point)
            THEN [at EXCEPT !.panic = TRUE]
            ELSE LET trimmed_text == TrimLeft(SliceFrom(text, at.start_point))
                 IN IF trimmed_text # <<>>
                    THEN [at EXCEPT !.start_point = StrLen(text) - StrLen(trimmed_text)]
                    ELSE SkipWhitespace([at EXCEPT !.content = Tail(at.content),
                                                   !.start_point = 0])

\* a continuation that starts the next line where this one started
ContinueInPlace(spans, start, break_point) ==
    [content |-> spans, start_point |-> start, panic |-> FALSE]

\* a continuation that steps over the character at the break as over one
\* byte, without trimming
ContinueByOneByte(spans, start, break_point) ==
    IF break_point[1] = 0
    THEN [content |-> spans, start_point |-> start + break_point[2] + 1, panic |-> FALSE]
    ELSE [content |-> SubSeq(spans, break_point[1] + 1, Len(spans)),
          start_point |-> break_point[2], panic |-> FALSE]

\* display_document.rs:262-276: where the next line of the block starts
Continue(spans, start, break_point) ==
    SkipWhitespace(
        IF break_point[1] = 0
        THEN [content |-> spans, start_point |-> start + break_point[2],
              panic |-> FALSE]
        ELSE IF break_point[1] > Len(spans)
        THEN [content |-> <<>>, start_point |-> 0, panic |-> TRUE]
        ELSE [content |-> SubSeq(spans, break_point[1] + 1, Len(spans)),
              start_point |-> break_point[2], panic |-> FALSE])

\* a label without the space after the colon
ImagePrefixNoSpace == <<"I", "m", "a", "g", "e", ":">>

\* the characters of "Image: " (display_document.rs:288)
ImagePrefix == <<"I", "m", "a", "g", "e", ":", " ">>

\* display(document, fonts, position_x, position_y, scale) is entered
\* (display_document.rs:65-76)
LayoutStart(blocks, the_fonts, the_scale) ==
    /\ document = blocks
    /\ fonts = the_fonts
    /\ scale = the_scale
    /\ display = [glyphs |-> <<>>, lines |-> <<>>]
    /\ position_y = MARGIN * Px
    /\ block_index = 1
    /\ content = <<>>
    /\ start_point = 0
    /\ display_bullet = FALSE
    /\ layout_pc = "block"
    /\ clipped = <<>>

\* display_document.rs:78-101: the next block is a Flowing block
EnterFlowing ==
    /\ layout_pc = "block"
    /\ block_index <= Len(document)
    /\ document[block_index].kind = "Flowing"
    /\ content' = document[block_index].content
    /\ start_point' = 0
    /\ display_bullet' = (document[block_index].class = "ListItem")
    /\ layout_pc' = "line"
    /\ UNCHANGED <<brush_vars, vertex_vars, main_vars>>
    /\ UNCHANGED <<document, fonts, scale, display, position_y, block_index, clipped>>

\* display_document.rs:102-277: one iteration of the line loop of a Flowing
\* block; the last one (no wrap) also leaves the block (line 278)
LayoutLine ==
    /\ layout_pc = "line"
    /\ LET class == document[block_index].class
           block_scale == BlockScale(class, scale)
           left_margin == LeftMargin(class, scale)
           v_metrics == fonts.v_metrics
           m == Measure(content, start_point, block_scale, left_margin, fonts.count)
           baseline_position_y == position_y + Ceil(block_scale * v_metrics.ascent)
           glyph_count_before_line == Len(display.glyphs)
           e == EmitSpans(content, start_point, m.break_point, block_scale,
                          baseline_position_y, fonts.count, 0,
                          [glyphs |-> IF display_bullet
                                      THEN Append(display.glyphs,
                                                  Bullet(block_scale, PositionX * Px,
                                                         baseline_position_y))
                                      ELSE display.glyphs,
                           caret_position_x |-> PositionX * Px + left_margin,
                           last_font_id |-> 0, last_glyph |-> NoGlyph, panic |-> FALSE])
           line == Line(position_y, baseline_position_y - block_scale * v_metrics.descent,
                        glyph_count_before_line, Len(e.glyphs))
           advanced == position_y + block_scale * (v_metrics.ascent - v_metrics.descent
                                                    + v_metrics.line_gap)
           next == Continue(content, start_point, m.break_point)
       IN IF m.panic \/ e.panic
          THEN /\ layout_pc' = "panic"
               /\ UNCHANGED <<display, position_y, block_index, content, start_point,
                              display_bullet>>
          ELSE /\ display' = [glyphs |-> e.glyphs, lines |-> Append(display.lines, line)]
               /\ display_bullet' = FALSE
               /\ IF ~m.wrap
                  THEN /\ position_y' = advanced + PARAGRAPH_SPACING * scale * Px
                       /\ block_index' = block_index + 1
                       /\ content' = <<>>
                       /\ start_point' = 0
                       /\ layout_pc' = "block"
                  ELSE /\ position_y' = advanced
                       /\ content' = next.content
                       /\ start_point' = next.start_point
                       /\ layout_pc' = IF next.panic THEN "panic" ELSE "line"
                       /\ UNCHANGED block_index
    /\ UNCHANGED <<brush_vars, vertex_vars, main_vars>>
    /\ UNCHANGED <<document, fonts, scale, clipped>>

\* display_document.rs:280-313: the next block is an Image block
LayoutImage ==
    /\ layout_pc = "block"
    /\ block_index <= Len(document)
    /\ document[block_index].kind = "Image"
    /\ LET v_metrics == fonts.v_metrics
           glyph_count_before_line == Len(display.glyphs)
           baseline_position_y ==
               position_y + Ceil(FONT_SIZE_REGULAR * scale * 100 * v_metrics.ascent)
           block_scale == FONT_SIZE_REGULAR * 100
           e == EmitChars("COLOR_IMAGE_PLACEHOLDER", 0, block_scale, baseline_position_y,
                          ImagePrefix \o document[block_index].source, 1,
                          [glyphs |-> display.glyphs, caret_position_x |-> PositionX * Px,
                           last_font_id |-> 0, last_glyph |-> NoGlyph, panic |-> FALSE])
       IN /\ display' =
                [glyphs |-> e.glyphs,
                 lines |-> Append(display.lines,
                                  Line(position_y,
                                       baseline_position_y
                                           - FONT_SIZE_REGULAR * 100 * v_metrics.descent,
                                       glyph_count_before_line, Len(e.glyphs)))]
          /\ position_y' = position_y
                           + FONT_SIZE_REGULAR * 100 * (v_metrics.ascent - v_metrics.descent
                                                         + v_metrics.line_gap)
                           + PARAGRAPH_SPACING * scale * Px
    /\ block_index' = block_index + 1
    /\ UNCHANGED <<brush_vars, vertex_vars, main_vars>>
    /\ UNCHANGED <<document, fonts, scale, content, start_point, display_bullet, layout_pc,
                   clipped>>

\* display_document.rs:316: the blocks are exhausted, display is returned
LayoutReturn ==
    /\ layout_pc = "block"
    /\ block_index > Len(document)
    /\ layout_pc' = "done"
    /\ UNCHANGED <<brush_vars, vertex_vars, main_vars>>
    /\ UNCHANGED <<document, fonts, scale, display, position_y, block_index, content,
                   start_point, display_bullet, clipped>>

\* Display::bound_y_max, display_document.rs:28-33
BoundYMax(d) ==
    IF d.lines = <<>> THEN 0 ELSE d.lines[Len(d.lines)].bounds_y.end

\* [T]::binary_search_by of the standard library, on the orderings the
\* comparator gives the elements: Ok(index) or Err(insertion index)
RECURSIVE BinarySearchLoop(_, _, _)
BinarySearchLoop(orderings, base, size) ==
    IF size > 1
    THEN LET half == size \div 2
             mid == base + half
         IN BinarySearchLoop(orderings,
                             IF orderings[mid + 1] = "Greater" THEN base ELSE mid,
                             size - half)
    ELSE base

BinarySearchBy(orderings) ==
    IF Len(orderings) = 0 THEN [tag |-> "Err", index |-> 0]
    ELSE LET base == BinarySearchLoop(orderings, 0, Len(orderings))
             cmp == orderings[base + 1]
         IN IF cmp = "Equal" THEN [tag |-> "Ok", index |-> base]
            ELSE [tag |-> "Err", index |-> base + (IF cmp = "Less" THEN 1 ELSE 0)]

\* clip with a viewport that takes in the line starting at its lower edge
ClipRangeInclusive(d, bound_y_min, bound_y_max) ==
    LET end_search ==
            BinarySearchBy([i \in DOMAIN d.lines |->
                               IF d.lines[i].bounds_y.start <= bound_y_max
                               THEN "Less" ELSE "Greater"])
        end_line_index == end_search.index
        start_search ==
            BinarySearchBy([i \in 1..end_line_index |->
                               IF d.lines[i].bounds_y.end > bound_y_min
                               THEN "Greater" ELSE "Less"])
        start_line_index == start_search.index
    IN IF end_line_index > start_line_index
       THEN [panic |-> FALSE,
             start |-> d.lines[start_line_index + 1].glyphs.start,
             end |-> d.lines[end_line_index].glyphs.end]
       ELSE [panic |-> FALSE, start |-> 0, end |-> 0]

\* Display::clip, display_document.rs:35-62: the range of glyph indices
\* returned, start inclusive and end exclusive; &[] is the range 0..0
ClipRange(d, bound_y_min, bound_y_max) ==
    LET end_search ==
            BinarySearchBy([i \in DOMAIN d.lines |->
                               IF d.lines[i].bounds_y.start < bound_y_max
                               THEN "Less" ELSE "Greater"])
        end_line_index == end_search.index
        start_search ==
            BinarySearchBy([i \in 1..end_line_index |->
                               IF d.lines[i].bounds_y.end > bound_y_min
                               THEN "Greater" ELSE "Less"])
        start_line_index == start_search.index
    IN IF end_search.tag = "Ok" \/ start_search.tag = "Ok"
       THEN [panic |-> TRUE, start |-> 0, end |-> 0]
       ELSE IF end_line_index > start_line_index
       THEN [panic |-> FALSE,
             start |-> d.lines[start_line_index + 1].glyphs.start,
             end |-> d.lines[end_line_index].glyphs.end]
       ELSE [panic |-> FALSE, start |-> 0, end |-> 0]

\* a clip that hands the lines over: the first line leaves the Display
ClipTaking(calls, bound_y_min, bound_y_max) ==
    /\ layout_pc = "done"
    /\ Len(clipped) < calls
    /\ LET range == ClipRange(display, bound_y_min, bound_y_max)
       IN clipped' = Append(clipped,
                            [bound_y_min |-> bound_y_min, bound_y_max |-> bound_y_max,
                             panic |-> range.panic
                                       \/ range.start > range.end
                                       \/ range.end > Len(display.glyphs),
                             range |-> [start |-> range.start, end |-> range.end],
                             glyphs |-> SubSeq(display.glyphs, range.start + 1, range.end)])
    /\ display' = [display EXCEPT !.lines = IF @ = <<>> THEN @ ELSE Tail(@)]
    /\ UNCHANGED <<brush_vars, vertex_vars, main_vars>>
    /\ UNCHANGED <<document, fonts, scale, position_y, block_index, content,
                   start_point, display_bullet, layout_pc>>

\* a call of clip on the returned Display (display_document.rs:35-62), one
\* of up to calls calls: clip takes &self, the Display is not written
ClipUpTo(calls, bound_y_min, bound_y_max) ==
    /\ layout_pc = "done"
    /\ Len(clipped) < calls
    /\ LET range == ClipRange(display, bound_y_min, bound_y_max)
       IN clipped' = Append(clipped,
                            [bound_y_min |-> bound_y_min, bound_y_max |-> bound_y_max,
                             panic |-> range.panic
                                       \/ range.start > range.end
                                       \/ range.end > Len(display.glyphs),
                             range |-> [start |-> range.start, end |-> range.end],
                             glyphs |-> SubSeq(display.glyphs, range.start + 1, range.end)])
    /\ UNCHANGED <<brush_vars, vertex_vars, main_vars>>
    /\ UNCHANGED <<document, fonts, scale, display, position_y, block_index, content,
                   start_point, display_bullet, layout_pc>>

\* the one call of clip on the returned Display
Clip(bound_y_min, bound_y_max) == ClipUpTo(1, bound_y_min, bound_y_max)

(***************************************************************************)
(* Inputs of the layout                                                    *)
(***************************************************************************)
\* number of blocks of a document
MaxBlocks == 2

\* the scales display() is called with: the example's, and one at which a
\* few characters fill the column
Scales == {1, 20}

\* v_metrics of fonts[0] at scale 1, in font units: DejaVu Sans (line gap 0),
\* and the same with a line gap
VMetricsInputs ==
    {[ascent |-> 1901, descent |-> -483, line_gap |-> 0],
     [ascent |-> 1901, descent |-> -483, line_gap |-> 238]}

\* the example loads five fonts (main.rs:51-57)
FontInputs == {[count |-> 5, v_metrics |-> v] : v \in VMetricsInputs}

\* number of characters of an Image source that is wider than the column
LongSource == 40

BlockInputs ==
    {Flowing("Paragraph", <<Text("Regular", <<"m", " ", "m", "i">>)>>),
     Flowing("Heading1", <<Text("Bold", <<"m", "m">>), LineBreak, Text("Link", <<"i">>)>>),
     Flowing("ListItem", <<Text("Code", <<"m", "i">>), Text("Italic", <<" ", "eacute", "i">>)>>),
     Flowing("Heading6", <<Text("BoldItalic", <<"nbsp", "m", "eacute", "m", "m">>)>>),
     Flowing("Preformatted", <<>>),
     Image(<<"i", "\n">>),
     Image([i \in 1..LongSource |-> "m"])}

Documents == UNION {[1..n -> BlockInputs] : n \in 0..MaxBlocks}

LayoutInitOver(documents, font_inputs, scales) ==
    \E blocks \in documents, the_fonts \in font_inputs, the_scale \in scales :
        LayoutStart(blocks, the_fonts, the_scale)

LayoutInit == LayoutInitOver(Documents, FontInputs, Scales)

\* no layout is running: display() was called on the empty document
LayoutIdle ==
    LayoutInitOver({<<>>}, {[count |-> 5, v_metrics |-> [ascent |-> 1901, descent |-> -483,
                                                        line_gap |-> 0]]}, {1})

\* the viewport edges clip is called with: above and below every line, and
\* the edges of the first two lines and of the last line
ClipYs(d) ==
    {0, BoundYMax(d) + Px}
    \cup {d.lines[i].bounds_y.start : i \in DOMAIN d.lines \cap {1, 2, Len(d.lines)}}
    \cup {d.lines[i].bounds_y.end : i \in DOMAIN d.lines \cap {1, 2, Len(d.lines)}}

LayoutNext ==
    \/ EnterFlowing
    \/ LayoutLine
    \/ LayoutImage
    \/ LayoutReturn
    \/ \E bound_y_min \in ClipYs(display), bound_y_max \in ClipYs(display) :
          /\ bound_y_min <= bound_y_max
          /\ Clip(bound_y_min, bound_y_max)

(***************************************************************************)
(***************************************************************************)
(* Inputs of the line loop: one Flowing block of two Text spans, with or   *)
(* without a LineBreak between them, at a scale where two or three         *)
(* characters fill the column                                              *)
(***************************************************************************)
\* number of characters of a span's text
MaxTextLen == 3

\* a wide character, a whitespace character, a two-byte character, a
\* two-byte whitespace character
WrapChars == {"m", " ", "eacute", "nbsp"}

Texts == UNION {[1..n -> WrapChars] : n \in 0..MaxTextLen}

\* the texts of the span that follows: empty, a word, a word after
\* whitespace, whitespace after a two-byte character
SecondTexts == {<<>>, <<"m">>, <<" ", "m">>, <<"eacute", " ">>}

\* a block class at which a character narrower than the column exists, and
\* one at which "m" alone is wider than the column
WrapClasses == {"Paragraph", "Heading1"}

WrapDocuments ==
    {<<Flowing(class, <<Text("Regular", first), Text("Bold", second)>>)>> :
        class \in WrapClasses, first \in Texts, second \in SecondTexts}
    \cup {<<Flowing(class, <<Text("Regular", first), LineBreak, Text("Regular", second)>>)>> :
        class \in WrapClasses, first \in Texts, second \in SecondTexts}

WrapInit ==
    LayoutInitOver(WrapDocuments,
                   {[count |-> 5, v_metrics |-> [ascent |-> 1901, descent |-> -483,
                                                 line_gap |-> 0]]}, {20})

WrapNext ==
    \/ EnterFlowing
    \/ LayoutLine
    \/ LayoutReturn

(***************************************************************************)
(* Inputs of the layout with font lists of every length up to the          *)
(* example's: one block of every block class and span class                *)
(***************************************************************************)
BlockClasses ==
    {"Heading1", "Heading2", "Heading3", "Heading4", "Heading5", "Heading6",
     "ListItem", "Paragraph", "Preformatted"}

SpanClasses ==
    {"Bold", "BoldItalic", "BoldItalicLink", "BoldLink", "Code", "Italic",
     "ItalicLink", "Link", "Regular"}

ClassDocuments ==
    {<<Flowing(block_class, <<Text(span_class, <<"m", " ", "eacute", "i">>),
                              LineBreak,
                              Text("Regular", <<"i">>)>>)>> :
        block_class \in BlockClasses, span_class \in SpanClasses}
    \cup {<<Image(<<"i">>)>>, <<>>}

\* non-empty font lists of up to the five fonts the example loads
FontLists ==
    {[count |-> n, v_metrics |-> [ascent |-> 1901, descent |-> -483, line_gap |-> 0]] :
        n \in 1..5}

FontsInit == LayoutInitOver(ClassDocuments, FontLists, Scales)

FontsNext ==
    \/ EnterFlowing
    \/ LayoutLine
    \/ LayoutImage
    \/ LayoutReturn

(***************************************************************************)
(* Inputs of repeated clip calls on one Display                            *)
(***************************************************************************)
\* number of clip calls on a Display
MaxClips == 2

\* documents of one block
SingleBlockDocuments == {<<block>> : block \in BlockInputs}

ClipInit == LayoutInitOver(SingleBlockDocuments, FontInputs, Scales)

\* viewport edges: above every line, the end of the first line, below every
\* line
RepeatedClipYs(d) ==
    {0, BoundYMax(d) + Px} \cup {d.lines[i].bounds_y.end : i \in DOMAIN d.lines \cap {1}}

ClipNext ==
    \/ EnterFlowing
    \/ LayoutLine
    \/ LayoutImage
    \/ LayoutReturn
    \/ \E bound_y_min \in RepeatedClipYs(display), bound_y_max \in RepeatedClipYs(display) :
          /\ bound_y_min <= bound_y_max
          /\ ClipUpTo(MaxClips, bound_y_min, bound_y_max)

(***************************************************************************)
(* The main loop of the example: src/examples/html/main.rs:76-150          *)
(*                                                                         *)
(* Lengths are in wheel lines (64 pixels at a hidpi factor of 1).  The     *)
(* queue_section and draw_queued calls of a frame are the brush operations *)
(* above; here a painted frame is counted.                                 *)
(***************************************************************************)
\* frames painted in one run
MaxPaints == 3
\* window events pending at a time
MaxPending == 2
\* display.bound_y_max() + MARGIN
DocumentBottom == 3

\* heights of the window
WindowHeights == {1, 2}

WindowEvents ==
    {[kind |-> "CloseRequested"], [kind |-> "Refresh"], [kind |-> "Focused"]}
    \cup {[kind |-> "MouseWheel", value |-> v] : v \in {-1, 1}}
    \cup {[kind |-> "Resized", size |-> h] : h \in WindowHeights}

\* main.rs:98-99 and 107-109: .min(bound_y_max + MARGIN - height).max(0.)
ClampScroll(new_scroll, height) ==
    LET least == IF new_scroll <= DocumentBottom - height
                 THEN new_scroll ELSE DocumentBottom - height
    IN Max(least, 0)

\* main.rs:81-112: the closure of poll_events applied to one event; m holds
\* paint, running, scroll and window_size_y
HandleEvent(m, event) ==
    CASE event.kind = "CloseRequested" -> [m EXCEPT !.running = FALSE]
      [] event.kind = "MouseWheel" ->
             LET new_scroll == ClampScroll(m.scroll - event.value, m.window_size_y)
             IN IF new_scroll # m.scroll
                THEN [m EXCEPT !.paint = TRUE, !.scroll = new_scroll]
                ELSE m
      [] event.kind = "Refresh" -> [m EXCEPT !.paint = TRUE]
      [] event.kind = "Resized" ->
             [m EXCEPT !.window_size_y = event.size,
                       !.scroll = ClampScroll(m.scroll, event.size),
                       !.paint = TRUE]
      [] OTHER -> m

\* events_loop.poll_events: the closure applied to every pending event
RECURSIVE PollEvents(_, _)
PollEvents(m, events) ==
    IF events = <<>> THEN m
    ELSE PollEvents(HandleEvent(m, Head(events)), Tail(events))

\* main.rs:76-78 (the loop is about to start) with a window of some height
MainInit ==
    /\ paint = TRUE
    /\ running = TRUE
    /\ scroll = 0
    /\ window_size_y \in WindowHeights
    /\ events_loop = <<>>
    /\ main_pc = "loop"
    /\ frames_painted = 0

\* the example is not running
MainIdle ==
    /\ paint = TRUE
    /\ running = TRUE
    /\ scroll = 0
    /\ window_size_y = 1
    /\ events_loop = <<>>
    /\ main_pc = "idle"
    /\ frames_painted = 0

\* the window system delivers an event
PostEvent(event) ==
    /\ main_pc \in {"loop", "blocked"}
    /\ Len(events_loop) < MaxPending
    /\ events_loop' = Append(events_loop, event)
    /\ UNCHANGED <<paint, running, scroll, window_size_y, main_pc, frames_painted>>
    /\ UNCHANGED <<brush_vars, vertex_vars, layout_vars>>

\* main.rs:79-150: one iteration of the loop.  An iteration that ended in
\* poll.poll (line 118) is followed by the next when an event is pending.
LoopIteration ==
    /\ \/ main_pc = "loop"
       \/ main_pc = "blocked" /\ events_loop # <<>>
    /\ LET m == PollEvents([paint |-> paint, running |-> running, scroll |-> scroll,
                            window_size_y |-> window_size_y], events_loop)
       IN /\ events_loop' = <<>>
          /\ paint' = m.paint
          /\ running' = m.running
          /\ scroll' = m.scroll
          /\ window_size_y' = m.window_size_y
          /\ IF ~m.running
             THEN \* main.rs:114-116
                  /\ main_pc' = "exited"
                  /\ UNCHANGED frames_painted
             ELSE IF ~m.paint
             THEN \* main.rs:117-120
                  /\ main_pc' = "blocked"
                  /\ UNCHANGED frames_painted
             ELSE \* main.rs:121-149
                  /\ frames_painted < MaxPaints
                  /\ frames_painted' = frames_painted + 1
                  /\ main_pc' = "loop"
    /\ UNCHANGED <<brush_vars, vertex_vars, layout_vars>>

MainNext ==
    \/ \E event \in WindowEvents : PostEvent(event)
    \/ LoopIteration

(***************************************************************************)
(* Inputs of the layout with kerned pairs within a span, across spans of   *)
(* one font, across spans of two fonts and across line ends                *)
(***************************************************************************)
\* the first span has up to MaxTextLen characters; in the second, "i" is
\* kerned after "m" and after "i", and the span has the font of the first
\* (Link) or another one (Bold)
KernDocuments ==
    LET kern_texts == UNION {[1..n -> {"m", "i", " "}] : n \in 0..MaxTextLen}
        second_texts == {<<>>, <<"i">>, <<"i", "i">>, <<"m", "i">>}
    IN {<<Flowing(class, <<Text("Regular", first), Text(second_class, second)>>)>> :
           class \in WrapClasses, first \in kern_texts,
           second_class \in {"Link", "Bold"}, second \in second_texts}

KernNext ==
    \/ EnterFlowing
    \/ LayoutLine
    \/ LayoutReturn

(***************************************************************************)
(* One application of vertex() to a glyph, a lookup result and bounds      *)
(***************************************************************************)
\* pixel coordinates of the rectangles tried: 0..MaxCoord
MaxCoord == 3

Coords == 0..MaxCoord

\* glyph rectangles with an area; the atlas rectangle has the same size in
\* texels and lies at (5, 7) in the atlas
VertexRects ==
    {Rect(x0, y0, x1, y1) : x0 \in Coords, y0 \in Coords, x1 \in Coords, y1 \in Coords}

VertexInputs ==
    {[rect |-> RectSome(Rect(5, 7, 5 + Width(r), 7 + Height(r)), r), bounds |-> b] :
        r \in {r \in VertexRects : r.min.x < r.max.x /\ r.min.y < r.max.y},
        b \in {b \in VertexRects : b.min.x <= b.max.x /\ b.min.y <= b.max.y}}
    \cup {[rect |-> t, bounds |-> Rect(0, 0, MaxCoord, MaxCoord)] : t \in {RectNone, RectErr}}

VertexIdle == vx_in = <<>> /\ vx_out = <<>>

BrushIdle == Build(<<256, 256>>) /\ call = NoCall /\ frame = 0

VertexInit == vx_in \in VertexInputs /\ vx_out = <<>>

\* vertex(glyph, cache, bounds, z, screen) applied to the input
ApplyVertex ==
    /\ vx_out = <<>>
    /\ vx_out' = <<[panic |-> VertexPanics(vx_in.rect),
                    out |-> Vertex("regular", vx_in.rect, vx_in.bounds, 1, Screen)]>>
    /\ UNCHANGED <<vx_in, brush_vars, layout_vars, main_vars>>

\* one specification per part of the program; the other parts stay idle
VertexSpecInit == BrushIdle /\ VertexInit /\ LayoutIdle /\ MainIdle

SpecVertex == VertexSpecInit /\ [][ApplyVertex]_vars

DrawSpecInit == BrushInit /\ VertexIdle /\ LayoutIdle /\ MainIdle

SpecDraw == DrawSpecInit /\ [][BrushNext]_vars

SpecFormats == DrawSpecInit /\ [][FormatsNext]_vars

SizesSpecInit == BrushInitAnySize /\ VertexIdle /\ LayoutIdle /\ MainIdle

SpecSizes == SizesSpecInit /\ [][LargeNext]_vars

\* a brush built with any of the initial sizes or with an empty atlas
\* (builder.rs:87-90 takes any pair of u32)
GrowthSpecInit ==
    /\ BrushInitOver(InitialCacheSizes \cup {<<0, 0>>})
    /\ VertexIdle /\ LayoutIdle /\ MainIdle

SpecGrowth == GrowthSpecInit /\ [][GrowthNext]_vars

LayoutSpecInit == BrushIdle /\ VertexIdle /\ LayoutInit /\ MainIdle

SpecLayout == LayoutSpecInit /\ [][LayoutNext]_vars


(***************************************************************************)
WrapSpecInit == BrushIdle /\ VertexIdle /\ WrapInit /\ MainIdle

SpecWrap == WrapSpecInit /\ [][WrapNext]_vars

FontsSpecInit == BrushIdle /\ VertexIdle /\ FontsInit /\ MainIdle

SpecFonts == FontsSpecInit /\ [][FontsNext]_vars

ClipSpecInit == BrushIdle /\ VertexIdle /\ ClipInit /\ MainIdle

SpecClip == ClipSpecInit /\ [][ClipNext]_vars

KernSpecInit ==
    /\ BrushIdle /\ VertexIdle /\ MainIdle
    /\ LayoutInitOver(KernDocuments,
                      {[count |-> 5, v_metrics |-> [ascent |-> 1901, descent |-> -483,
                                                    line_gap |-> 0]]}, {20})

SpecKern == KernSpecInit /\ [][KernNext]_vars

MainSpecInit == BrushIdle /\ VertexIdle /\ LayoutIdle /\ MainInit

SpecMain == MainSpecInit /\ [][MainNext]_vars

(***************************************************************************)
(* Properties                                                              *)
(***************************************************************************)
Min(a, b) == IF a <= b THEN a ELSE b

\* the closed rectangles s and b have no point in common
Disjoint(s, b) ==
    \/ Min(s.max.x, b.max.x) < Max(s.min.x, b.min.x)
    \/ Min(s.max.y, b.max.y) < Max(s.min.y, b.min.y)

\* the part of the pixel interval [lo, hi] that lies in [blo, bhi]
Overlap(lo, hi, blo, bhi) == Min(hi, bhi) - Max(lo, blo)

\* C1 (as claimed): the lines of the Display are strictly ascending by
\* start-y and do not overlap: each line ends at or above the start of the
\* next one.
C1_LinesAscendingDisjoint ==
    \A i \in 1..(Len(display.lines) - 1) :
        /\ display.lines[i].bounds_y.start < display.lines[i + 1].bounds_y.start
        /\ display.lines[i].bounds_y.end <= display.lines[i + 1].bounds_y.start

\* the lines of d that the viewport bound_y_min..bound_y_max shows
LinesIn(d, bound_y_min, bound_y_max) ==
    {i \in DOMAIN d.lines :
        /\ d.lines[i].bounds_y.start < bound_y_max
        /\ d.lines[i].bounds_y.end > bound_y_min}

\* the positions in d.glyphs of the glyphs of line i
GlyphsOfLine(d, i) == (d.lines[i].glyphs.start + 1)..(d.lines[i].glyphs.end)

\* C2: clip(yMin, yMax) on a returned Display, for any yMin <= yMax, does
\* not fail and returns exactly the glyphs of the lines L with
\* L.start < yMax and L.end > yMin, as whole lines: the result starts at the
\* first glyph of the first such line and ends at the last glyph of the last
\* one; it is empty when no line matches.
C2_ClipReturnsLinesInView ==
    \A i \in DOMAIN clipped :
        LET c == clipped[i]
            shown == LinesIn(display, c.bound_y_min, c.bound_y_max)
        IN /\ ~c.panic
           /\ (c.range.start + 1)..(c.range.end) = UNION {GlyphsOfLine(display, l) : l \in shown}
           /\ c.glyphs = SubSeq(display.glyphs, c.range.start + 1, c.range.end)
           /\ shown = {} => c.glyphs = <<>>
           /\ shown # {} =>
                 /\ c.range.start =
                        display.lines[CHOOSE l \in shown : \A k \in shown : l <= k].glyphs.start
                 /\ c.range.end =
                        display.lines[CHOOSE l \in shown : \A k \in shown : l >= k].glyphs.end

\* a clip that shows two or more lines and leaves out lines above and below
C2_Witness ==
    /\ layout_pc = "done"
    /\ clipped # <<>>
    /\ Cardinality(LinesIn(display, clipped[1].bound_y_min, clipped[1].bound_y_max)) >= 2
    /\ clipped[1].range.start > 0
    /\ clipped[1].range.end < Len(display.glyphs)
    /\ Len(clipped[1].glyphs) >= 2

\* C4: a glyph that is in the atlas and not outside the bounds yields one
\* instance; its UV coordinate on every edge that lies within the bounds is
\* the atlas rectangle's, and its UV extent on each axis is the atlas extent
\* times (clipped length / original length) of the screen rectangle on that
\* axis, also when both edges of the axis are clipped.
C4_UvShrinksProportionally ==
    (vx_out # <<>> /\ vx_in.rect.tag = "Some"
        /\ ~Disjoint(vx_in.rect.screen, vx_in.bounds)) =>
    /\ Len(vx_out[1].out) = 1
    /\ LET v == vx_out[1].out[1]
           s == vx_in.rect.screen
           b == vx_in.bounds
           uv == vx_in.rect.uv
           u_left == v.tex_left_top[1]
           u_right == v.tex_right_bottom[1]
           v_top == v.tex_right_bottom[2]
           v_bottom == v.tex_left_top[2]
       IN /\ (s.min.x >= b.min.x) => (u_left = uv.min.x)
          /\ (s.max.x <= b.max.x) => (u_right = uv.max.x)
          /\ (s.min.y >= b.min.y) => (v_top = uv.min.y)
          /\ (s.max.y <= b.max.y) => (v_bottom = uv.max.y)
          /\ (u_right - u_left) * Width(s)
                = Width(uv) * Overlap(s.min.x, s.max.x, b.min.x, b.max.x)
          /\ (v_bottom - v_top) * Height(s)
                = Height(uv) * Overlap(s.min.y, s.max.y, b.min.y, b.max.y)

\* a glyph clipped on both edges of the x axis and on one edge of the y axis
C4_Witness ==
    /\ vx_out # <<>>
    /\ vx_in.rect.tag = "Some"
    /\ vx_in.rect.screen.min.x < vx_in.bounds.min.x
    /\ vx_in.rect.screen.max.x > vx_in.bounds.max.x
    /\ vx_in.bounds.min.x < vx_in.bounds.max.x
    /\ vx_in.rect.screen.max.y > vx_in.bounds.max.y
    /\ vx_in.rect.screen.min.y < vx_in.bounds.max.y
    /\ Len(vx_out[1].out) = 1

\* C5: a glyph whose atlas rectangle is present yields no instance when its
\* screen rectangle is entirely outside the bounds (has no point in common
\* with them: a rectangle that touches an edge of the bounds is not outside),
\* and exactly one instance otherwise; a glyph whose atlas rectangle is
\* absent (Ok(None)) yields no instance.
C5_InstanceCount ==
    vx_out # <<>> =>
    /\ (vx_in.rect.tag = "Some") =>
          Len(vx_out[1].out) = (IF Disjoint(vx_in.rect.screen, vx_in.bounds) THEN 0 ELSE 1)
    /\ (vx_in.rect.tag = "None") => (vx_out[1].out = <<>> /\ ~vx_out[1].panic)

\* a glyph that only touches the right edge of the bounds gives one instance
C5_Witness ==
    /\ vx_out # <<>>
    /\ vx_in.rect.tag = "Some"
    /\ vx_in.rect.screen.min.x = vx_in.bounds.max.x
    /\ Len(vx_out[1].out) = 1


\* a glyph of a Section survives when it is in the atlas and its screen
\* rectangle has a point in common with the Section's bounds
Survives(cache, g, bounds) ==
    /\ g.outline
    /\ CacheKey(g) \in cache.all_glyphs
    /\ ~Disjoint(g.bb, bounds)

\* what identifies the instance of glyph g of a Section: its colour, the
\* Section's z and the left edge of the visible part of the glyph
InstanceOf(g, sec) ==
    [color |-> g.color, z |-> sec.z,
     left |-> 2 * Max(g.bb.min.x, sec.bounds.min.x) - Screen.w]

\* the surviving glyphs from glyph j of Section i on, in queue order
RECURSIVE SurvivorsFrom(_, _, _, _)
SurvivorsFrom(cache, secs, i, j) ==
    IF i > Len(secs) THEN <<>>
    ELSE IF j > Len(secs[i].glyphs) THEN SurvivorsFrom(cache, secs, i + 1, 1)
    ELSE (IF Survives(cache, secs[i].glyphs[j], secs[i].bounds)
          THEN <<InstanceOf(secs[i].glyphs[j], secs[i])>> ELSE <<>>)
         \o SurvivorsFrom(cache, secs, i, j + 1)

InstancesOf(verts) ==
    [i \in DOMAIN verts |->
        [color |-> verts[i].color, z |-> verts[i].left_top[3], left |-> verts[i].left_top[1]]]

\* C3: the instances of a draw call are, in order, the surviving glyphs of
\* the queued Sections in queue order and, within a Section, in glyph order;
\* each carries its glyph's colour and its Section's z.
C3_InstanceOrder ==
    [][(frame' = frame + 1 /\ call'.result = "Ok")
          => InstancesOf(call'.verts) = SurvivorsFrom(font_cache', sections, 1, 1)]_vars

\* a draw of two Sections of different z, three instances, one glyph dropped
C3_Witness ==
    /\ call.result = "Ok"
    /\ Len(call.verts) = 3
    /\ call.n_glyphs > 3
    /\ call.verts[1].left_top[3] # call.verts[3].left_top[3]
    /\ call.verts[1].color # call.verts[2].color

\* C6 (as claimed): after k growth steps from the initial size (w, h) the
\* atlas and its texture both measure (w * 2^k, h * 2^k).
C6_TextureMatchesAtlas ==
    LET k == factory.textures - 1
    IN /\ font_cache.width = builder.initial_cache_size[1] * 2^k
       /\ font_cache.height = builder.initial_cache_size[2] * 2^k
       /\ font_cache_tex.tex.w = font_cache.width
       /\ font_cache_tex.tex.h = font_cache.height

FailedDraw == frame' = frame + 1 /\ call'.result = "Err"

\* C8 (as claimed): a draw call that fails on a texture allocation issues no
\* draw and leaves atlas dimensions, atlas texture and view, and the cached
\* draw state exactly as they were when the call began.
C8_Original ==
    [][FailedDraw =>
          /\ call'.draws = <<>>
          /\ font_cache'.width = font_cache.width
          /\ font_cache'.height = font_cache.height
          /\ font_cache_tex' = font_cache_tex
          /\ draw_cache' = draw_cache]_vars

\* C8 (amended): a draw call that fails on a texture allocation issues no
\* draw and leaves the cached pipeline, instance buffer and instance count
\* as they were; atlas dimensions, atlas texture and view are those of the
\* last growth step of the call that succeeded, and the dirty flag of an
\* existing draw cache is set if there was one; all of them are as the call
\* found them only when its first growth step is the one that fails.
C8_FailureKeepsLastGrowth ==
    [][FailedDraw =>
          /\ call'.draws = <<>>
          /\ font_cache'.width = font_cache.width * 2^(call'.grown)
          /\ font_cache'.height = font_cache.height * 2^(call'.grown)
          /\ font_cache_tex'.tex.id = font_cache_tex.tex.id + call'.grown
          /\ font_cache_tex'.view = font_cache_tex'.tex.id
          /\ call'.grown = 0 => font_cache_tex' = font_cache_tex /\ draw_cache' = draw_cache
          /\ Len(draw_cache') = Len(draw_cache)
          /\ draw_cache # <<>> =>
                draw_cache'[1] = [draw_cache[1] EXCEPT
                                     !.texture_updated = @ \/ call'.grown >= 1]
       ]_vars

\* a failure after a growth step that succeeded, with a draw cache in place
C8_Witness ==
    /\ call.result = "Err"
    /\ call.grown >= 1
    /\ draw_cache # <<>>
    /\ draw_cache[1].texture_updated

\* C9 (as claimed): the pipeline used by a draw call was built for that
\* call's (colour format, depth format) pair.
C9_PipelineMatchesTarget ==
    \A i \in DOMAIN call.draws :
        /\ call.draws[i].pipeline.color = call.target.color
        /\ call.draws[i].pipeline.depth = call.target.depth

\* C10 (as claimed): a successful draw_queued / draw_queued_with_transform
\* issues exactly one draw, with the instance buffer and the instance count
\* of the vertices generated in that call.
C10_Original ==
    call.result = "Ok" =>
        /\ Len(call.draws) = 1
        /\ call.draws[1].vbuf = [frame |-> frame, data |-> call.verts]
        /\ call.draws[1].instances = Len(call.verts)

\* C10 (amended): a successful call made with at least one glyph in the
\* queued Sections issues exactly one draw, with the instance buffer and
\* the instance count of the vertices generated in that call; a successful
\* call made with no glyph in the queued Sections issues no draw.
C10_OneDrawPerTextCall ==
    call.result = "Ok" =>
        IF call.n_glyphs = 0
        THEN call.draws = <<>>
        ELSE /\ Len(call.draws) = 1
             /\ call.draws[1].vbuf = [frame |-> frame, data |-> call.verts]
             /\ call.draws[1].instances = Len(call.verts)

\* a later successful draw of three instances, on the pipeline cached by an
\* earlier draw
C10_Witness ==
    /\ call.result = "Ok"
    /\ frame = MaxFrames
    /\ call.n_glyphs > 0
    /\ Len(call.draws) = 1
    /\ call.draws[1].pipeline.made < frame
    /\ call.draws[1].instances = 3

\* C11 (as claimed): after a draw call that returns success the Section queue
\* is empty, whatever was queued before it, Sections without glyphs included.
C11_QueueEmptyAfterSuccess ==
    [][(frame' = frame + 1 /\ call'.result = "Ok") => sections' = <<>>]_vars

\* the measuring pass of the line the line loop is about to lay out
LineMeasure ==
    Measure(content, start_point, BlockScale(document[block_index].class, scale),
            LeftMargin(document[block_index].class, scale), fonts.count)

\* the line about to be laid out ends because the accumulated width exceeds
\* the column width, not at a LineBreak and not at the end of the block
EndsByOverflow ==
    /\ layout_pc = "line"
    /\ LET m == LineMeasure
       IN /\ m.wrap
          /\ ~m.panic
          /\ ~(/\ m.break_point[1] >= 1
               /\ m.break_point[2] = 0
               /\ content[m.break_point[1]].kind = "LineBreak")

\* the number of characters of the line a LayoutLine step lays out
CharsOfNewLine ==
    Len(display'.glyphs) - Len(display.glyphs) - (IF display_bullet THEN 1 ELSE 0)

\* C12: every line that ends because the accumulated width exceeded the
\* column width holds at least one character.
C12_OverflowLineHasCharacter ==
    [][(EndsByOverflow /\ layout_pc' # "panic") => CharsOfNewLine >= 1]_vars

\* the width of the glyphs of a block laid on one line, kerning included
WidthOnOneLine(block, the_scale) ==
    EmitSpans(block.content, 0, <<Len(block.content) + 1, 0>>,
              BlockScale(block.class, the_scale), 0, fonts.count, 0,
              [glyphs |-> <<>>, caret_position_x |-> 0, last_font_id |-> 0,
               last_glyph |-> NoGlyph, panic |-> FALSE]).caret_position_x

\* a Paragraph without LineBreak, with text, that fits within the column
FittingParagraph(block, the_scale) ==
    /\ block.kind = "Flowing"
    /\ block.class = "Paragraph"
    /\ \A i \in DOMAIN block.content : block.content[i].kind = "Text"
    /\ \E i \in DOMAIN block.content : block.content[i].text # <<>>
    /\ WidthOnOneLine(block, the_scale) <= WIDTH * Px

\* the baseline of a line that holds a glyph
Baseline(d, i) == d.glyphs[d.lines[i].glyphs.start + 1].y

\* C13: two consecutive Paragraph blocks that fit within the column width
\* and hold no LineBreak are laid out as exactly two lines, the second
\* baseline  18 * scale * (ascent - descent + line_gap)
\* + PARAGRAPH_SPACING * scale  below the first.
C13_TwoParagraphsTwoLines ==
    (/\ layout_pc = "done"
     /\ Len(document) = 2
     /\ \A i \in 1..2 : FittingParagraph(document[i], scale))
    => /\ Len(display.lines) = 2
       /\ Baseline(display, 2) - Baseline(display, 1)
              = FONT_SIZE_REGULAR * 100 * scale
                    * (fonts.v_metrics.ascent - fonts.v_metrics.descent
                       + fonts.v_metrics.line_gap)
                + PARAGRAPH_SPACING * scale * Px

\* two paragraphs "m mi" at scale 1, with a font that has a line gap
C13_Witness ==
    /\ layout_pc = "done"
    /\ Len(document) = 2
    /\ \A i \in 1..2 : FittingParagraph(document[i], scale)
    /\ fonts.v_metrics.line_gap > 0
    /\ Len(display.lines) = 2
    /\ Len(display.glyphs) = 8

\* C14 (as claimed): layout of a well-formed block sequence with a non-empty
\* font list never fails.
C14_Original == layout_pc # "panic"

\* C14 (amended): with a font list of five fonts or more, layout of a
\* well-formed block sequence never fails.
C14_TotalWithFiveFonts == fonts.count >= 5 => layout_pc # "panic"

\* a Code span under a heading, laid out with five fonts at the scale at
\* which the text wraps
C14_Witness ==
    /\ layout_pc = "done"
    /\ fonts.count = 5
    /\ scale = 20
    /\ Len(document) = 1
    /\ document[1].class = "Heading3"
    /\ document[1].content[1].class = "Code"
    /\ Len(display.lines) > 2

\* the step lays out the Image block at block_index
ImageStep ==
    /\ layout_pc = "block"
    /\ block_index <= Len(document)
    /\ document[block_index].kind = "Image"
    /\ block_index' = block_index + 1

\* the characters an Image block shows
ImageLabel(source) ==
    <<"I", "m", "a", "g", "e", ":", " ">> \o [i \in DOMAIN source |-> map_character(source[i])]

\* C15: an Image block yields exactly one line, whatever the length of its
\* source; the line holds one glyph per character of "Image: " followed by
\* the source, each of font 0 in the placeholder colour; the line starts at
\* the vertical cursor, and the cursor of the next block (where its first
\* line starts) is 18 * (ascent - descent + line_gap)
\* + PARAGRAPH_SPACING * scale  below.
C15_ImageOneLine ==
    [][/\ ImageStep =>
            LET label == ImageLabel(document[block_index].source)
                before == Len(display.glyphs)
                line == display'.lines[Len(display'.lines)]
            IN /\ SubSeq(display'.lines, 1, Len(display.lines)) = display.lines
               /\ Len(display'.lines) = Len(display.lines) + 1
               /\ SubSeq(display'.glyphs, 1, before) = display.glyphs
               /\ line.glyphs = [start |-> before, end |-> before + Len(label)]
               /\ Len(display'.glyphs) = before + Len(label)
               /\ \A i \in DOMAIN label :
                      /\ display'.glyphs[before + i].id = GlyphId(label[i])
                      /\ display'.glyphs[before + i].font_id = 0
                      /\ display'.glyphs[before + i].color = "COLOR_IMAGE_PLACEHOLDER"
                      /\ display'.glyphs[before + i].y = display'.glyphs[before + 1].y
               /\ line.bounds_y.start = position_y
               /\ position_y' = position_y
                                + FONT_SIZE_REGULAR * 100
                                      * (fonts.v_metrics.ascent - fonts.v_metrics.descent
                                         + fonts.v_metrics.line_gap)
                                + PARAGRAPH_SPACING * scale * Px
       /\ Len(display'.lines) > Len(display.lines) =>
              display'.lines[Len(display'.lines)].bounds_y.start = position_y]_vars

\* an Image block whose label is wider than the column is followed by a
\* block: one line of 7 + LongSource glyphs that ends right of the column,
\* and the next block's first line
C15_Witness ==
    /\ layout_pc = "done"
    /\ Len(document) = 2
    /\ document[1].kind = "Image"
    /\ Len(document[1].source) = LongSource
    /\ document[2].kind = "Flowing"
    /\ display.lines[1].glyphs = [start |-> 0, end |-> 7 + LongSource]
    /\ display.glyphs[7 + LongSource].x > (PositionX + WIDTH) * Px
    /\ Len(display.lines) >= 2
    /\ fonts.v_metrics.line_gap > 0
    /\ display.lines[2].bounds_y.start
           = display.lines[1].bounds_y.start
             + FONT_SIZE_REGULAR * 100 * (fonts.v_metrics.ascent - fonts.v_metrics.descent
                                          + fonts.v_metrics.line_gap)
             + PARAGRAPH_SPACING * scale * Px

RECURSIVE LineChars(_, _, _)
LineChars(spans, start, span_index) ==
    IF span_index >= Len(spans) \/ spans[span_index + 1].kind = "LineBreak" THEN <<>>
    ELSE LET span == spans[span_index + 1]
             text == SpanText(span, span_index, start)
         IN [i \in DOMAIN text |-> [font_id |-> FontId(span.class), character |-> text[i]]]
            \o LineChars(spans, start, span_index + 1)

\* the accumulated width after each of the first n characters, kerning included
RECURSIVE CaretAfter(_, _, _, _)
CaretAfter(chars, block_scale, left_margin, n) ==
    IF n = 0 THEN left_margin
    ELSE LET id == GlyphId(map_character(chars[n].character))
             kerning == IF n > 1 /\ chars[n - 1].font_id = chars[n].font_id
                        THEN PairKerning(chars[n].font_id, block_scale,
                                         GlyphId(map_character(chars[n - 1].character)), id)
                        ELSE 0
         IN CaretAfter(chars, block_scale, left_margin, n - 1) + kerning
            + AdvanceWidth(chars[n].font_id, block_scale, id)

\* the greatest element of a non-empty set of numbers
Greatest(S) == CHOOSE x \in S : \A y \in S : y <= x

\* the least element of a non-empty set of numbers
Least(S) == CHOOSE x \in S : \A y \in S : x <= y

\* C17: when the accumulated width of a line exceeds the column width at a
\* character after the line's first, the line ends just before the most
\* recent whitespace character seen on the line, that character included, and
\* just before that character only when the line has no whitespace up to it.
C17_BreakAtLastWhitespace ==
    [][(layout_pc = "line" /\ layout_pc' # "panic") =>
           LET class == document[block_index].class
               chars == LineChars(content, start_point, 0)
               over == {n \in 2..Len(chars) :
                           CaretAfter(chars, BlockScale(class, scale),
                                      LeftMargin(class, scale), n) > WIDTH * Px}
           IN over # {} =>
                  LET overflowing == Least(over)
                      whitespace == {n \in 1..overflowing : IsWhitespace(chars[n].character)}
                  IN CharsOfNewLine = (IF whitespace # {} THEN Greatest(whitespace)
                                       ELSE overflowing) - 1]_vars

\* the character of the line at break point at, a pair of span index and byte
\* offset into the text the line has of that span
CharacterAt(spans, start, at) ==
    LET chars == CharIndices(SpanText(spans[at[1] + 1], at[1], start))
    IN {chars[i].character : i \in {j \in DOMAIN chars : chars[j].position = at[2]}}

\* C18: on a line whose first character is whitespace, a line end caused by
\* the width is taken at a recorded whitespace break: the whitespace recorded
\* at span 0, offset 0 is not taken for "no break point recorded".
C18_BreakAtOffsetZeroKept ==
    (/\ layout_pc = "line"
     /\ content # <<>>
     /\ content[1].kind = "Text"
     /\ SpanText(content[1], 0, start_point) # <<>>
     /\ IsWhitespace(SpanText(content[1], 0, start_point)[1])
     /\ EndsByOverflow)
    => \A character \in CharacterAt(content, start_point, LineMeasure.break_point) :
           IsWhitespace(character)

\* C19: in the Display layout returns, the lines' glyph ranges partition the
\* glyph sequence in order: the first range starts at 0, each range starts
\* where the one before ends, and the last ends at the number of glyphs.
C19_GlyphRangesPartition ==
    layout_pc = "done" =>
        /\ \A i \in DOMAIN display.lines :
               /\ display.lines[i].glyphs.start
                      = (IF i = 1 THEN 0 ELSE display.lines[i - 1].glyphs.end)
               /\ display.lines[i].glyphs.start <= display.lines[i].glyphs.end
        /\ Len(display.glyphs)
               = (IF display.lines = <<>> THEN 0
                  ELSE display.lines[Len(display.lines)].glyphs.end)

\* a list item with its bullet, wrapped into several lines, followed by an
\* Image block
C19_Witness ==
    /\ layout_pc = "done"
    /\ Len(document) = 2
    /\ document[1].class = "ListItem"
    /\ document[2].kind = "Image"
    /\ Len(display.lines) >= 4
    /\ display.glyphs[1].id = GlyphId("bullet")
    /\ display.lines[Len(display.lines)].glyphs.end = Len(display.glyphs)

\* C20: every byte offset at which layout slices the text of a span (the
\* start of a continued span, the break offset, the offset after trimming the
\* leading whitespace) is a character boundary, also after several wraps in
\* the same span of two-byte characters; no slice fails.
C20_SlicesAtCharBoundaries ==
    /\ layout_pc # "panic"
    /\ (layout_pc = "line" /\ content # <<>> /\ content[1].kind = "Text") =>
           /\ IsCharBoundary(content[1].text, start_point)
           /\ LET at == LineMeasure.break_point
              IN (/\ LineMeasure.wrap
                  /\ at[1] < Len(content)
                  /\ content[at[1] + 1].kind = "Text")
                 => IsCharBoundary(SpanText(content[at[1] + 1], at[1], start_point), at[2])

\* the third line of a span of three two-byte characters starts at byte 4,
\* after two wraps in the span
C20_Witness ==
    /\ layout_pc = "line"
    /\ content # <<>>
    /\ content[1].text = <<"eacute", "eacute", "eacute">>
    /\ start_point = 4
    /\ Len(display.lines) = 2
    /\ LineMeasure.wrap

\* C21: between draw calls the draw cache binds the current atlas texture
\* view or has texture_updated set; an issued draw binds the current view and
\* leaves texture_updated clear; the bound view changes only in a draw call
\* with an atlas growth in it or in a failed call since the last issued draw.
C21_RebindOnlyAfterGrowth ==
    [][/\ draw_cache' # <<>> =>
              \/ draw_cache'[1].font_tex = font_cache_tex'.view
              \/ draw_cache'[1].texture_updated
       /\ (frame' = frame + 1 /\ call'.draws # <<>>) =>
              /\ call'.draws[1].font_tex = font_cache_tex'.view
              /\ ~draw_cache'[1].texture_updated
       /\ (draw_cache # <<>> /\ draw_cache' # <<>>
           /\ draw_cache'[1].font_tex # draw_cache[1].font_tex) =>
              /\ call'.draws # <<>>
              /\ call'.grown > 0 \/ draw_cache[1].texture_updated]_vars

\* a draw is issued with the cache of an earlier frame in a call that grew
\* the atlas: the view bound is the grown atlas's, not the one of that frame
C21_Witness ==
    /\ call.result = "Ok"
    /\ call.grown > 0
    /\ call.draws # <<>>
    /\ call.draws[1].pipeline.made < frame
    /\ call.draws[1].font_tex = font_cache_tex.view
    /\ font_cache_tex.view > 1
    /\ ~draw_cache[1].texture_updated

\* the characters of the line about to be laid out at which the accumulated
\* width exceeds the column width and the measuring pass stops: every one but
\* a character at offset 0 of span 0
OverflowingChars(chars, block_scale, left_margin) ==
    {n \in 1..Len(chars) :
        /\ CaretAfter(chars, block_scale, left_margin, n) > WIDTH * Px
        /\ ~(n = 1 /\ SpanText(content[1], 0, start_point) # <<>>)}

\* C22: kerning is applied exactly between two consecutive characters of one
\* line that have the same font id, never to the first character of a line
\* and never across a change of font id; the measuring pass and the emitting
\* pass apply the same kerning to the same pairs: every emitted glyph lies at
\* the left margin plus the advances and same-font kernings of the characters
\* before it on its line, and the measured width is the same sum up to the
\* character at which the measuring pass stops.
C22_KerningWithinLineAndFont ==
    [][(layout_pc = "line" /\ display' # display) =>
          LET class == document[block_index].class
              block_scale == BlockScale(class, scale)
              left_margin == LeftMargin(class, scale)
              chars == LineChars(content, start_point, 0)
              over == OverflowingChars(chars, block_scale, left_margin)
              base == Len(display.glyphs) + (IF display_bullet THEN 1 ELSE 0)
          IN /\ CharsOfNewLine <= Len(chars)
             /\ \A i \in 1..CharsOfNewLine :
                   display'.glyphs[base + i].x =
                       PositionX * Px + CaretAfter(chars, block_scale, left_margin, i)
                       - AdvanceWidth(chars[i].font_id, block_scale,
                                      GlyphId(map_character(chars[i].character)))
             /\ LineMeasure.caret_position_x =
                   CaretAfter(chars, block_scale, left_margin,
                              IF over = {} THEN Len(chars) ELSE Least(over))]_vars

\* a line holds "m" then "i" of two spans of one font, kerned, and another
\* line of the same block starts with an "i" that follows an "i"
C22_Witness ==
    /\ layout_pc = "done"
    /\ \E i \in DOMAIN display.glyphs :
          /\ i + 1 \in DOMAIN display.glyphs
          /\ display.glyphs[i].id = GlyphId("m") /\ display.glyphs[i + 1].id = GlyphId("i")
          /\ display.glyphs[i].font_id = display.glyphs[i + 1].font_id
          /\ display.glyphs[i].color # display.glyphs[i + 1].color
          /\ display.glyphs[i].y = display.glyphs[i + 1].y
          /\ display.glyphs[i + 1].x - display.glyphs[i].x
                 < AdvanceWidth(display.glyphs[i].font_id, display.glyphs[i].scale, GlyphId("m"))
    /\ \E l \in DOMAIN display.lines :
          /\ l > 1
          /\ display.lines[l].glyphs.start < display.lines[l].glyphs.end
          /\ display.glyphs[display.lines[l].glyphs.start + 1].id = GlyphId("i")
          /\ display.glyphs[display.lines[l].glyphs.start].id = GlyphId("i")
          /\ display.glyphs[display.lines[l].glyphs.start + 1].x
                 = PositionX * Px + LeftMargin(document[1].class, scale)

\* the right edge of the advance of glyph g, from the left edge of the column
RightEdge(g) == g.x + AdvanceWidth(g.font_id, g.scale, g.id) - PositionX * Px

\* C23: on every line of a flowing block that holds more than one character,
\* the left margin plus the advances and kerning of the emitted characters
\* does not exceed the column width.
C23_LineWithinColumn ==
    [][(layout_pc = "line" /\ display' # display /\ CharsOfNewLine > 1) =>
          /\ display'.glyphs[Len(display'.glyphs)].x
                 >= PositionX * Px + LeftMargin(document[block_index].class, scale)
          /\ RightEdge(display'.glyphs[Len(display'.glyphs)]) <= WIDTH * Px]_vars

\* a block was laid out on several lines: one that ended by overflow holds
\* more than one character and another character of the block would not have
\* fitted on it, and a line of a single character exceeds the column width
C23_Witness ==
    /\ layout_pc = "done"
    /\ \E l \in DOMAIN display.lines :
          /\ l < Len(display.lines)
          /\ display.lines[l].glyphs.end - display.lines[l].glyphs.start > 1
          /\ RightEdge(display.glyphs[display.lines[l].glyphs.end])
                 + AdvanceWidth(0, display.glyphs[1].scale, GlyphId("i")) > WIDTH * Px
    /\ \E l \in DOMAIN display.lines :
          /\ display.lines[l].glyphs.end - display.lines[l].glyphs.start = 1
          /\ RightEdge(display.glyphs[display.lines[l].glyphs.end]) > WIDTH * Px

\* the input a sequence of spans holds: one per span and one per byte of text
RECURSIVE SpansSize(_)
SpansSize(spans) ==
    IF spans = <<>> THEN 0
    ELSE 1 + (IF Head(spans).kind = "Text" THEN StrLen(Head(spans).text) ELSE 0)
         + SpansSize(Tail(spans))

\* the steps the blocks from block i on can take at most
RECURSIVE BlocksSize(_, _)
BlocksSize(blocks, i) ==
    IF i > Len(blocks) THEN 0
    ELSE (IF blocks[i].kind = "Flowing" THEN SpansSize(blocks[i].content) + 3 ELSE 1)
         + BlocksSize(blocks, i + 1)

\* a natural number that bounds the steps the layout has left
LayoutRank ==
    CASE layout_pc = "block" -> 1 + BlocksSize(document, block_index)
      [] layout_pc = "line" ->
             2 + BlocksSize(document, block_index + 1) + SpansSize(content) - start_point
      [] OTHER -> 0

\* a wrapping iteration of the line loop leaves the first span with a later
\* start_point, or drops spans from the front
ConsumesInput ==
    \/ content' = content /\ start_point' > start_point
    \/ /\ Len(content') < Len(content)
       /\ content' = SubSeq(content, Len(content) - Len(content') + 1, Len(content))

\* a step of display() decreases the rank, and consumes input when it wraps
DecreasingStep ==
    /\ LayoutRank' < LayoutRank
    /\ LayoutRank' >= 0
    /\ (layout_pc = "line" /\ layout_pc' = "line") => ConsumesInput

\* C24: the layout terminates: every step of display() strictly decreases a
\* natural number, and each wrapping iteration of the line loop consumes at
\* least one byte of the first span or at least one whole span.
C24_LineLoopConsumesInput ==
    [][(layout_pc = "block" \/ layout_pc = "line") => DecreasingStep]_vars

\* a block was laid out on three lines or more: the line loop wrapped at
\* least twice, once within the first span and once past a whole span
C24_Witness ==
    /\ layout_pc = "done"
    /\ Len(document) = 1
    /\ Len(display.lines) >= 3
    /\ Len(document[1].content) = 2
    /\ document[1].content[1].text # <<>>
    /\ display.lines[2].glyphs.start < display.lines[2].glyphs.end
    /\ display.glyphs[display.lines[2].glyphs.start + 1].font_id = 0
    /\ display.glyphs[Len(display.glyphs)].font_id = 1
    /\ display.lines[Len(display.lines)].glyphs.end
           - display.lines[Len(display.lines)].glyphs.start = 1

\* C25: every draw call returns: its growth-retry loop ends with a commit or
\* with a texture-allocation error after a bounded number of doublings, no
\* more than a u32 dimension can double.
C25_BoundedDoublings == call.grown <= U32Bits

\* the requests one pass over the glyphs adds to the queue of the atlas: one
\* for every glyph that has an outline, in order
RequestsOf(glyphs) ==
    LET outlined == SelectSeq(glyphs, LAMBDA g : g.outline)
    IN [i \in DOMAIN outlined |-> CacheKey(outlined[i])]

\* the part of a draw call a step belongs to
EntersLoop == call.result # "Growing" /\ call'.result = "Growing"
StaysInLoop == call.result = "Growing" /\ call'.result = "Growing"

\* C26: within one draw call every glyph of every queued Section is queued
\* into the atlas cache exactly once, before the first commit attempt; a
\* commit attempt queues nothing, and after an overflow and growth the
\* retried commit finds the queued requests of the failed commit.
C26_QueuedOncePerCall ==
    [][/\ EntersLoop =>
              font_cache'.queue = font_cache.queue \o RequestsOf(AllGlyphs(sections))
       /\ StaysInLoop =>
              /\ font_cache'.queue = font_cache.queue
              /\ font_cache'.width = 2 * font_cache.width
              /\ ~CacheQueuedOk(font_cache)
              /\ sections' = sections
       /\ (call.result = "Growing" /\ ~StaysInLoop) =>
              \/ font_cache'.queue = font_cache.queue /\ call'.result # "Ok"
              \/ /\ font_cache'.queue = <<>>
                 /\ call'.result \in {"Ok", "Panic"}
                 /\ Range(font_cache.queue) \subseteq font_cache'.all_glyphs]_vars

\* a draw call of three glyphs overflowed the atlas, grew it twice and
\* committed the three requests on the third attempt
C26_Witness ==
    /\ call.result = "Ok"
    /\ call.grown = 2
    /\ call.n_glyphs = 3
    /\ call.overflow
    /\ font_cache.queue = <<>>
    /\ Cardinality(font_cache.all_glyphs) = 3

\* the characters of the Text spans of a block, in reading order
RECURSIVE SourceChars(_)
SourceChars(spans) ==
    IF spans = <<>> THEN <<>>
    ELSE (IF Head(spans).kind = "Text" THEN Head(spans).text ELSE <<>>)
         \o SourceChars(Tail(spans))

\* the glyph ids `emitted` are those of the characters `source`, in order,
\* with nothing but whitespace characters left out
RECURSIVE OnlyWhitespaceRemoved(_, _)
OnlyWhitespaceRemoved(emitted, source) ==
    IF source = <<>> THEN emitted = <<>>
    ELSE IF emitted # <<>> /\ Head(emitted) = GlyphId(map_character(Head(source)))
    THEN OnlyWhitespaceRemoved(Tail(emitted), Tail(source))
    ELSE /\ IsWhitespace(Head(source))
         /\ OnlyWhitespaceRemoved(emitted, Tail(source))

\* the ids of the text glyphs of a Display of one block, the bullet excluded
TextGlyphIds(d, block) ==
    LET first == IF block.class = "ListItem" THEN 2 ELSE 1
    IN [i \in 1..(Len(d.glyphs) - first + 1) |-> d.glyphs[i + first - 1].id]

\* C27: the text glyphs emitted for a flowing block over all its lines, the
\* bullet excluded, are in order the characters of its Text spans with only
\* whitespace removed: every non-whitespace character is emitted exactly
\* once, in reading order.
C27_TextEmittedInOrder ==
    (layout_pc = "done" /\ Len(document) = 1 /\ document[1].kind = "Flowing") =>
        OnlyWhitespaceRemoved(TextGlyphIds(display, document[1]),
                              SourceChars(document[1].content))

\* a block of two spans was laid out on two lines or more, with a whitespace
\* removed at a line end, a whitespace kept within a line and a character of
\* each span emitted
C27_Witness ==
    /\ layout_pc = "done"
    /\ Len(display.lines) >= 2
    /\ Len(document[1].content) = 2
    /\ Len(display.glyphs) < Len(SourceChars(document[1].content))
    /\ \E i \in DOMAIN display.glyphs : IsWhitespace(display.glyphs[i].id)
    /\ \E i \in DOMAIN display.glyphs :
          ~IsWhitespace(display.glyphs[i].id) /\ display.glyphs[i].font_id = 0
    /\ \E i \in DOMAIN display.glyphs :
          ~IsWhitespace(display.glyphs[i].id) /\ display.glyphs[i].font_id = 1

\* the instance lies within the bounds, both in device coordinates, whose y
\* axis points up: left_top holds the left edge and the lower edge (gl_rect
\* max.y), right_bottom the right edge and the upper edge
WithinGlBounds(instance, gl_bounds) ==
    /\ gl_bounds.min.x <= instance.left_top[1]
    /\ instance.left_top[1] <= instance.right_bottom[1]
    /\ instance.right_bottom[1] <= gl_bounds.max.x
    /\ gl_bounds.max.y <= instance.left_top[2]
    /\ instance.left_top[2] <= instance.right_bottom[2]
    /\ instance.right_bottom[2] <= gl_bounds.min.y

\* C28: every instance vertex() emits has its rectangle contained in the
\* Section's clip bounds, in normalized device coordinates.
C28_InstanceWithinBounds ==
    \A i \in DOMAIN vx_out :
        \A j \in DOMAIN vx_out[i].out :
            WithinGlBounds(vx_out[i].out[j], GlBounds(vx_in.bounds, Screen))

\* an instance was emitted for a glyph that sticks out of the bounds on the
\* left and at the bottom
C28_Witness ==
    /\ vx_out # <<>>
    /\ vx_out[1].out # <<>>
    /\ vx_in.rect.screen.min.x < vx_in.bounds.min.x
    /\ vx_in.rect.screen.max.y > vx_in.bounds.max.y
    /\ vx_in.rect.screen.max.x > vx_in.bounds.min.x
    /\ vx_in.rect.screen.min.y < vx_in.bounds.max.y

\* an event that requests a frame is among the pending ones: a wheel event
\* that changes the scroll offset, a Refresh or a Resized event
EventsRequestPaint ==
    PollEvents([paint |-> FALSE, running |-> running, scroll |-> scroll,
                window_size_y |-> window_size_y], events_loop).paint

\* an iteration of the main loop paints a frame
PaintsFrame == frames_painted' = frames_painted + 1

\* C29: after a frame has been painted, the main loop paints again only when
\* an event requests it (a scroll change, a Refresh or a Resized event); an
\* iteration that finds no such event and no CloseRequested blocks waiting
\* for window events.
C29_PaintsOnlyOnRequest ==
    [][/\ (PaintsFrame /\ frames_painted >= 1) => EventsRequestPaint
       /\ (main_pc = "loop" /\ frames_painted >= 1 /\ ~EventsRequestPaint
           /\ main_pc' # "exited" /\ events_loop' = <<>>) => main_pc' = "blocked"]_vars

=============================================================================
